---- MODULE Spec2Model ----
(***************************************************************************)
(* A model of the background synchronisation core of the Steam bot:        *)
(*   - redis_manager.py : leader lease, distributed lock, leader heartbeat *)
(*   - steam_tasks.py   : the three periodic jobs                          *)
(*   - http_session.py  : HTTP GET with retry, backoff and 429 cooldown    *)
(*   - rate_limiter.py  : in-process sliding-window rate limiter           *)
(*                                                                         *)
(* Time is kept as remaining durations (the TTL a key has left, the        *)
(* seconds a sleep has left, the age of a timestamp); the action Tick      *)
(* lets one second pass.                                                   *)
(***************************************************************************)
EXTENDS Integers, Sequences, FiniteSets, TLC

(***************************************************************************)
(* Bounds of the model.                                                    *)
(***************************************************************************)
\* The ttl arguments given to acquire/renew calls are drawn from 1..MaxTtl.
MaxTtl == 2

\* The running instances of the bot; an instance is named by its instance_id
\* (redis_manager.py:22), and different instances have different ids.
Inst == {"a", "b"}

\* The keys of the coordination store the model uses: one leader lease
\* ("leader_lock:<name>") and one distributed lock ("lock:<key>").
LeaderKey == "leader_lock:steam_tasks"
LockKey == "lock:track"
Keys == {LeaderKey, LockKey}

VARIABLES
    \* ---- redis_manager.py ------------------------------------------------
    client,     \* client[i]: RedisManager.client of instance i is not None
    store,      \* store[k]: the value (an instance id) and remaining TTL of key k
    lastCall,   \* the most recent call of a RedisManager method and what it returned
    acqEpoch    \* since LeaderKey was last absent: who called acquire_leader_lock
                \* on the reachable store, and who was answered True

VARIABLES
    \* ---- the leader heartbeat of redis_manager.py, one task per instance ---
    hbPc,       \* hbPc[i]: where the heartbeat task of instance i stands
    hbCancel,   \* hbCancel[i]: task.cancel() was called and is not yet delivered
    hbSleep,    \* hbSleep[i]: seconds the task's asyncio.sleep(interval) has left
    hbReg,      \* hbReg[i]: lock_name is in _leader_tasks of instance i
    stopPc      \* stopPc[i]: where stop_leader_heartbeat of instance i stands

VARIABLES
    \* ---- steam_tasks.py ------------------------------------------------------
    jobPc,      \* jobPc[i][j]: "idle", or "running" while the body of job j runs
    tickLeader  \* tickLeader[i][j]: i held the lease when the running body's tick came

VARIABLES
    \* ---- http_session.py: one HTTPSessionManager and its get() calls ---------
    hCfg,       \* the constructor's max_retries, base_delay, max_delay
    permits,    \* free permits of self.semaphore
    rateLimits, \* _rate_limits[d]: seconds until the cooldown of origin d ends,
                \* or NoLimit when d is not in the map
    hPc,        \* hPc[c]: where call c of get() stands
    hAttempt,   \* hAttempt[c]: the local variable attempt
    hSleep,     \* hSleep[c]: seconds the call's asyncio.sleep has left
    hRetry429,  \* hRetry429[c]: the argument retry_on_429
    hResult,    \* hResult[c]: what the call returned or raised
    hNet,       \* hNet[c]: network requests the call has made
    hSleeps,    \* hSleeps[c]: the delays of the call's sleeps, in order
    hOnly5xx,   \* hOnly5xx[c]: every answer to the call so far was a 5xx status
    hOnlyErr,   \* hOnlyErr[c]: every request of the call so far raised a
                \* ClientError or TimeoutError
    hMethod,    \* hMethod[c]: "get" or "post", the method called
    ban         \* ban[d]: seconds left of the longest Retry-After received from d

VARIABLES
    \* ---- rate_limiter.py: one RateLimiter --------------------------------------
    requests,   \* requests[k]: the ages, in seconds, of the timestamps of key k
    admitted,   \* admitted[k]: the ages of the calls of acquire(k) that returned True
    lastAcq     \* the most recent call of acquire and what it returned

VARIABLES
    \* ---- steam_history.py: the tables of the history store ----------------------
    history,    \* steam_price_history: the snapshot rows in the order of insertion
    summary,    \* steam_price_summary: summary[a] is the row of appid a, or NoRow
    tracked,    \* steam_tracked_games: tracked[s] is the row of subscription s, or NoRow
    svPc,       \* svPc[w]: where the call of save_price_snapshot by writer w stands
    svArgs,     \* svArgs[w]: the arguments appid, cc, discount_percent of the call
    svExisting, \* svExisting[w]: the local variable existing of _update_summary
    svNow,      \* svNow[w]: the age of the local variable now of _update_summary
    svRet,      \* svRet[w]: what the call returned
    lastStats,  \* the most recent call of get_discount_stats and what it returned
    lastCleanup,\* the most recent call of cleanup_old_history and what it returned
    lastDue     \* the most recent call of get_games_needing_notification

VARIABLES
    \* ---- steam_tasks.py: one run of check_discounts ------------------------------
    swPc,       \* "idle", or "loop" while the loop over the tracked rows runs
    swTodo,     \* the rows of `tracked` (line 152) the loop has not come to yet
    swSent,     \* swSent[s]: the notifications this run has sent to subscription s
    swDue,      \* the subscriptions get_games_needing_notification would have
                \* returned when the run began
    swDelivered \* for each subscription the age in days of the last notification
                \* that was delivered to its user (Null: none yet)

VARIABLES
    \* ---- steam_tasks.py: one run of update_prices --------------------------------
    upPc,       \* "idle", "fetch" (line 97), "saving" (line 101), "done" (line 125)
                \* or "failed" (line 128)
    upIdx,      \* the items of rows the loop has finished with
    upUpdated,  \* the local variable updated
    upErrors,   \* the local variable errors
    upFailed    \* the items finished without a snapshot saved although one was due

VARIABLES
    \* ---- redis_manager.py: the sorted set of check_rate_limit, one key ---------
    zset,       \* the members of the sorted set: the age of each call that added
                \* one and the instance that called
    zTtl,       \* seconds until the key expires (0: it has no expiry or is gone)
    zAllowed,   \* the ages of the calls that reached the store and were allowed
    zSkew,      \* zSkew[i]: how far the event-loop clock of instance i is ahead
    lastCheck   \* the most recent call of check_rate_limit and what it returned

VARIABLES
    \* ---- rate_limiter.py: one call of wait_if_needed ---------------------------
    wPc,        \* "idle", "poll" (line 78), "sleep" (line 82), "returned" or
                \* "timeout" (line 80)
    wMax,       \* the argument max_wait
    wWaited,    \* the local variable waited
    wSleep,     \* seconds the asyncio.sleep(1) has left
    wPolls      \* the calls of acquire this call has made

VARIABLES
    \* ---- redis_manager.py: a heartbeat task that _leader_tasks no longer names ----
    oPc,        \* oPc[i]: where that task of instance i stands ("none": there is none)
    oSleep      \* oSleep[i]: seconds its asyncio.sleep(interval) has left

VARIABLES
    \* ---- steamdb_ui.py: invocations of toggle_tracking with a redis_client --------
    tgPc,       \* tgPc[t]: "idle", "tx" (the key is set, the transaction not yet
                \* committed) or "finally" (before the delete of line 89)
    tLock       \* the key lock:track:{appid}:{discord_id}: the invocation that set
                \* it and the seconds it has left

VARIABLES
    \* ---- redis_manager.py: the heartbeats under timely scheduling ------------------
    vacant      \* the seconds, counted by HbTick, for which the lease has not
                \* existed while some instance was heartbeating, and whether a
                \* heartbeat has since found or made it exist

VARIABLES
    \* ---- steam_price.py: SteamPriceAPI._cache for one key --------------------------
    cache,      \* the entry: its age in hours and the result it holds
    lastPrice   \* what the most recent call of get_price_info returned

storeVars == <<client, store, lastCall, acqEpoch>>
hbVars == <<hbPc, hbCancel, hbSleep, hbReg, stopPc>>
taskVars == <<jobPc, tickLeader>>
httpVars == <<hCfg, permits, rateLimits, hPc, hAttempt, hSleep, hRetry429,
              hResult, hNet, hSleeps, hOnly5xx, hOnlyErr, hMethod, ban>>
rlVars == <<requests, admitted, lastAcq>>
dbVars == <<history, summary, tracked, svPc, svArgs, svExisting, svNow, svRet,
            lastStats, lastCleanup, lastDue>>
sweepVars == <<swPc, swTodo, swSent, swDue, swDelivered>>
batchVars == <<upPc, upIdx, upUpdated, upErrors, upFailed>>
zVars == <<zset, zTtl, zAllowed, zSkew, lastCheck>>
waitVars == <<wPc, wMax, wWaited, wSleep, wPolls>>
orphanVars == <<oPc, oSleep>>
toggleVars == <<tgPc, tLock>>
cacheVars == <<cache, lastPrice>>
moreVars == <<orphanVars, toggleVars, cacheVars, vacant>>
extVars == <<zVars, waitVars, moreVars>>
syncVars == <<dbVars, sweepVars, batchVars, extVars>>
appVars == <<taskVars, httpVars, rlVars, syncVars>>
vars == <<client, store, lastCall, acqEpoch,
          hbPc, hbCancel, hbSleep, hbReg, stopPc,
          jobPc, tickLeader,
          hCfg, permits, rateLimits, hPc, hAttempt, hSleep, hRetry429,
          hResult, hNet, hSleeps, hOnly5xx, hOnlyErr, hMethod, ban,
          requests, admitted, lastAcq,
          history, summary, tracked, svPc, svArgs, svExisting, svNow, svRet,
          lastStats, lastCleanup, lastDue,
          swPc, swTodo, swSent, swDue, swDelivered,
          upPc, upIdx, upUpdated, upErrors, upFailed,
          zset, zTtl, zAllowed, zSkew, lastCheck,
          wPc, wMax, wWaited, wSleep, wPolls,
          oPc, oSleep, tgPc, tLock, cache, lastPrice, vacant>>

(***************************************************************************)
(* The coordination store (Redis) as the code uses it.                     *)
(***************************************************************************)
\* A key that does not exist: GET answers nil.
Absent == [owner |-> "nil", ttl |-> 0]

Entry(v, ttl) == [owner |-> v, ttl |-> ttl]

\* GET key
RedisGet(s, k) == s[k].owner

\* A plain SET key value EX ttl: what SET NX EX becomes when nx=True is dropped.
RedisSetEx(s, k, v, ttl) ==
    [reply |-> TRUE, store |-> [s EXCEPT ![k] = Entry(v, ttl)]]

\* SET key value NX EX ttl: sets only a key that does not exist; the reply is
\* truthy when the key was set.
RedisSetNxEx(s, k, v, ttl) ==
    IF s[k] = Absent
    THEN [reply |-> TRUE, store |-> [s EXCEPT ![k] = Entry(v, ttl)]]
    ELSE [reply |-> FALSE, store |-> s]

\* The renewal script: if GET key == id then EXPIRE key ttl else 0.
ScriptExpireIfOwner(s, k, v, ttl) ==
    IF RedisGet(s, k) = v
    THEN [reply |-> TRUE, store |-> [s EXCEPT ![k].ttl = ttl]]
    ELSE [reply |-> FALSE, store |-> s]

\* The release script without its owner check: DEL whatever the value.
DelAnyOwner(s, k, v) ==
    [reply |-> s[k] # Absent, store |-> [s EXCEPT ![k] = Absent]]

\* The release script: if GET key == id then DEL key else 0.
ScriptDelIfOwner(s, k, v) ==
    IF RedisGet(s, k) = v
    THEN [reply |-> TRUE, store |-> [s EXCEPT ![k] = Absent]]
    ELSE [reply |-> FALSE, store |-> s]

\* One second passes in the store: every TTL goes down by one and a key whose
\* TTL is used up no longer exists.
StoreAfterSecond(s) ==
    [k \in Keys |->
        IF s[k] = Absent \/ s[k].ttl <= 1 THEN Absent
        ELSE [s[k] EXCEPT !.ttl = s[k].ttl - 1]]

(***************************************************************************)
(* RedisManager: what each method returns and does to the store.  `raises` *)
(* says that the store call of this invocation raised (the store could not *)
(* be reached); the call then had no effect on the store.                  *)
(***************************************************************************)
\* is_available(): self.client is not None
IsAvailable(i) == client[i]

\* A leadership test that also takes a missing key for "mine".
IsLeaderOrVacant(i, raises) ==
    IF ~IsAvailable(i) THEN TRUE
    ELSE IF raises THEN FALSE
    ELSE RedisGet(store, LeaderKey) \in {i, "nil"}

\* is_leader(lock_name)
IsLeaderResult(i, raises) ==
    IF ~IsAvailable(i) THEN TRUE
    ELSE IF raises THEN FALSE
    ELSE RedisGet(store, LeaderKey) = i

\* acquire_leader_lock(lock_name, ttl) and acquire_lock(key, ttl): [ret, store]
AcquireResult(i, k, ttl, raises) ==
    IF ~IsAvailable(i) THEN [ret |-> TRUE, store |-> store]
    ELSE IF raises THEN [ret |-> FALSE, store |-> store]
    ELSE LET r == RedisSetNxEx(store, k, i, ttl)
         IN  [ret |-> r.reply, store |-> r.store]

\* A renewal that reports success to the owner without setting the TTL anew.
RenewResultNoExpire(i, ttl, raises) ==
    IF ~IsAvailable(i) THEN [ret |-> TRUE, store |-> store]
    ELSE IF raises THEN [ret |-> FALSE, store |-> store]
    ELSE [ret |-> RedisGet(store, LeaderKey) = i, store |-> store]

\* renew_leader_lock(lock_name, ttl): [ret, store]
RenewResult(i, ttl, raises) ==
    IF ~IsAvailable(i) THEN [ret |-> TRUE, store |-> store]
    ELSE IF raises THEN [ret |-> FALSE, store |-> store]
    ELSE LET r == ScriptExpireIfOwner(store, LeaderKey, i, ttl)
         IN  [ret |-> r.reply, store |-> r.store]

\* release_leader_lock(lock_name) and release_lock(key): the store afterwards
ReleaseResult(i, k, raises) ==
    IF ~IsAvailable(i) \/ raises THEN store
    ELSE ScriptDelIfOwner(store, k, i).store

\* The record of a call: who called what on which key, whether the store was
\* reached (client present and the call did not raise), and the value returned
\* (FALSE for the methods that return nothing).  seq flips with every call.
Call(i, op, k, reached, ret) ==
    [inst |-> i, op |-> op, key |-> k, reached |-> reached, ret |-> ret,
     seq |-> 1 - lastCall.seq]

NoCall == [inst |-> "nil", op |-> "none", key |-> "nil", reached |-> FALSE,
           ret |-> FALSE, seq |-> 0]

NoEpoch == [callers |-> {}, winners |-> {}]

\* acqEpoch after a step that leaves the store as s and the record as e: the
\* record starts afresh whenever the lease does not exist.
EpochAfter(s, e) == IF s[LeaderKey] = Absent THEN NoEpoch ELSE e

\* acqEpoch extended by a call of acquire_leader_lock that reached the store;
\* only an instance's first call since the lease was absent is recorded.
EpochWithCall(i, ret) ==
    IF i \in acqEpoch.callers THEN acqEpoch
    ELSE [callers |-> acqEpoch.callers \cup {i},
          winners |-> IF ret THEN acqEpoch.winners \cup {i} ELSE acqEpoch.winners]

(***************************************************************************)
(* Actions of the store layer.                                             *)
(***************************************************************************)
\* connect(): on success the client is set, on failure it is None.
Connect(i) ==
    /\ \E ok \in BOOLEAN : client' = [client EXCEPT ![i] = ok]
    /\ UNCHANGED <<store, lastCall, acqEpoch, hbVars, appVars>>

AcquireLeaderLock(i) ==
    \E ttl \in 1..MaxTtl, raises \in BOOLEAN :
        LET r == AcquireResult(i, LeaderKey, ttl, raises)
            reached == IsAvailable(i) /\ ~raises
        IN  /\ store' = r.store
            /\ lastCall' = Call(i, "acquire_leader_lock", LeaderKey, reached, r.ret)
            /\ acqEpoch' = EpochAfter(r.store,
                              IF reached THEN EpochWithCall(i, r.ret) ELSE acqEpoch)
            /\ UNCHANGED <<client, hbVars, appVars>>

IsLeader(i) ==
    \E raises \in BOOLEAN :
        /\ lastCall' = Call(i, "is_leader", LeaderKey,
                            IsAvailable(i) /\ ~raises, IsLeaderResult(i, raises))
        /\ UNCHANGED <<client, store, acqEpoch, hbVars, appVars>>

RenewLeaderLock(i) ==
    \E ttl \in 1..MaxTtl, raises \in BOOLEAN :
        LET r == RenewResult(i, ttl, raises)
        IN  /\ store' = r.store
            /\ lastCall' = Call(i, "renew_leader_lock", LeaderKey,
                                IsAvailable(i) /\ ~raises, r.ret)
            /\ acqEpoch' = EpochAfter(r.store, acqEpoch)
            /\ UNCHANGED <<client, hbVars, appVars>>

ReleaseLeaderLock(i) ==
    \E raises \in BOOLEAN :
        LET s == ReleaseResult(i, LeaderKey, raises)
        IN  /\ store' = s
            /\ lastCall' = Call(i, "release_leader_lock", LeaderKey,
                                IsAvailable(i) /\ ~raises, FALSE)
            /\ acqEpoch' = EpochAfter(s, acqEpoch)
            /\ UNCHANGED <<client, hbVars, appVars>>

AcquireLock(i) ==
    \E ttl \in 1..MaxTtl, raises \in BOOLEAN :
        LET r == AcquireResult(i, LockKey, ttl, raises)
        IN  /\ store' = r.store
            /\ lastCall' = Call(i, "acquire_lock", LockKey,
                                IsAvailable(i) /\ ~raises, r.ret)
            /\ UNCHANGED <<client, acqEpoch, hbVars, appVars>>

ReleaseLock(i) ==
    \E raises \in BOOLEAN :
        /\ store' = ReleaseResult(i, LockKey, raises)
        /\ lastCall' = Call(i, "release_lock", LockKey,
                            IsAvailable(i) /\ ~raises, FALSE)
        /\ UNCHANGED <<client, acqEpoch, hbVars, appVars>>

StoreInit ==
    /\ client = [i \in Inst |-> FALSE]
    /\ store = [k \in Keys |-> Absent]
    /\ lastCall = NoCall
    /\ acqEpoch = NoEpoch

(***************************************************************************)
(* start_leader_heartbeat / stop_leader_heartbeat.  The heartbeat task of  *)
(* an instance stands at one of                                            *)
(*   "none"       no task                                                  *)
(*   "created"    asyncio.create_task was called, the task has not run yet *)
(*   "is_leader"  awaiting is_leader                  (line 300)           *)
(*   "renew"      awaiting renew_leader_lock          (line 301)           *)
(*   "reacquire"  awaiting acquire_leader_lock        (line 305)           *)
(*   "acquire"    awaiting acquire_leader_lock        (line 308)           *)
(*   "sleep"      awaiting asyncio.sleep(interval)    (line 310)           *)
(*   "release"    in the CancelledError handler       (line 314)           *)
(*   "done"       the task has ended                                       *)
(* The store calls of the heartbeat swallow every Exception themselves, so *)
(* the handler of line 316 is never entered and has no action here.        *)
(***************************************************************************)
\* The interval argument of start_leader_heartbeat, in seconds.
HbInterval == 1

\* The ttl argument of start_leader_heartbeat.
HbTtl == MaxTtl

HbAwaiting == {"is_leader", "renew", "reacquire", "acquire", "sleep"}

\* start_leader_heartbeat(lock_name, ttl, interval), for an instance that has
\* no heartbeat task yet.
StartLeaderHeartbeat(i) ==
    /\ hbPc[i] = "none"
    /\ hbPc' = [hbPc EXCEPT ![i] = "created"]
    /\ hbReg' = [hbReg EXCEPT ![i] = TRUE]
    /\ UNCHANGED <<storeVars, hbCancel, hbSleep, stopPc, appVars>>

\* The event loop runs the task for the first time: it enters the loop.
HbFirstRun(i) ==
    /\ hbPc[i] = "created" /\ ~hbCancel[i]
    /\ hbPc' = [hbPc EXCEPT ![i] = "is_leader"]
    /\ UNCHANGED <<storeVars, hbCancel, hbSleep, hbReg, stopPc, appVars>>

\* The lease has not been found missing by the clock of the heartbeats.
NoVacancy == [secs |-> 0, ended |-> FALSE]

\* if await self.is_leader(lock_name), the store call raising or not
HbIsLeaderWith(i, raises) ==
    /\ hbPc[i] = "is_leader" /\ ~hbCancel[i]
    /\ hbPc' = [hbPc EXCEPT ![i] =
                   IF IsLeaderResult(i, raises) THEN "renew" ELSE "acquire"]
    /\ UNCHANGED <<storeVars, hbCancel, hbSleep, hbReg, stopPc, appVars>>

HbIsLeader(i) == \E raises \in BOOLEAN : HbIsLeaderWith(i, raises)

\* renewed = await self.renew_leader_lock(lock_name, ttl)
HbRenewWith(i, raises) ==
    /\ hbPc[i] = "renew" /\ ~hbCancel[i]
    /\ LET r == RenewResult(i, HbTtl, raises)
       IN  /\ store' = r.store
           /\ acqEpoch' = EpochAfter(r.store, acqEpoch)
           /\ hbPc' = [hbPc EXCEPT ![i] = IF r.ret THEN "sleep" ELSE "reacquire"]
           /\ hbSleep' = [hbSleep EXCEPT ![i] = IF r.ret THEN HbInterval ELSE 0]
    /\ UNCHANGED <<client, lastCall, hbCancel, hbReg, stopPc, appVars>>

HbRenew(i) == \E raises \in BOOLEAN : HbRenewWith(i, raises)

\* await self.acquire_leader_lock(lock_name, ttl), on either branch
HbAcquireWith(i, raises) ==
    /\ hbPc[i] \in {"acquire", "reacquire"} /\ ~hbCancel[i]
    /\ LET r == AcquireResult(i, LeaderKey, HbTtl, raises)
           reached == IsAvailable(i) /\ ~raises
       IN  /\ store' = r.store
           /\ acqEpoch' = EpochAfter(r.store,
                             IF reached THEN EpochWithCall(i, r.ret) ELSE acqEpoch)
           /\ vacant' = IF r.store[LeaderKey] = Absent \/ vacant.secs = 0 THEN vacant
                        ELSE [vacant EXCEPT !.ended = TRUE]
    /\ hbPc' = [hbPc EXCEPT ![i] = "sleep"]
    /\ hbSleep' = [hbSleep EXCEPT ![i] = HbInterval]
    /\ UNCHANGED <<client, lastCall, hbCancel, hbReg, stopPc, taskVars, httpVars,
                   rlVars, dbVars, sweepVars, batchVars, zVars, waitVars,
                   orphanVars, toggleVars, cacheVars>>

HbAcquire(i) == \E raises \in BOOLEAN : HbAcquireWith(i, raises)

\* asyncio.sleep(interval) is over: the loop starts again.
HbWake(i) ==
    /\ hbPc[i] = "sleep" /\ hbSleep[i] = 0 /\ ~hbCancel[i]
    /\ hbPc' = [hbPc EXCEPT ![i] = "is_leader"]
    /\ UNCHANGED <<storeVars, hbCancel, hbSleep, hbReg, stopPc, appVars>>

\* Where a task standing at pc goes when the cancellation reaches it: a task
\* that has never run ends without executing a line of heartbeat(); a task
\* suspended at an await inside the try gets CancelledError there and enters the
\* handler of line 312.
CancelTarget(pc) == IF pc = "created" THEN "done" ELSE "release"

\* The cancellation is delivered to the task.
HbCancelled(i) ==
    /\ hbCancel[i]
    /\ hbPc[i] \in HbAwaiting \cup {"created"}
    /\ hbPc' = [hbPc EXCEPT ![i] = CancelTarget(hbPc[i])]
    /\ hbCancel' = [hbCancel EXCEPT ![i] = FALSE]
    /\ hbSleep' = [hbSleep EXCEPT ![i] = 0]
    /\ UNCHANGED <<storeVars, hbReg, stopPc, appVars>>

\* except asyncio.CancelledError: await self.release_leader_lock(lock_name); break
HbRelease(i) ==
    /\ hbPc[i] = "release"
    /\ \E raises \in BOOLEAN :
          LET s == ReleaseResult(i, LeaderKey, raises)
          IN  /\ store' = s
              /\ acqEpoch' = EpochAfter(s, acqEpoch)
    /\ hbPc' = [hbPc EXCEPT ![i] = "done"]
    /\ UNCHANGED <<client, lastCall, hbCancel, hbSleep, hbReg, stopPc, appVars>>

\* stop_leader_heartbeat(lock_name) up to its await: task.cancel()
StopLeaderHeartbeat(i) ==
    /\ hbReg[i] /\ stopPc[i] = "idle"
    /\ hbCancel' = [hbCancel EXCEPT ![i] = hbPc[i] # "done"]
    /\ stopPc' = [stopPc EXCEPT ![i] = "awaiting"]
    /\ UNCHANGED <<storeVars, hbPc, hbSleep, hbReg, appVars>>

\* stop_leader_heartbeat after `await task`: del self._leader_tasks[lock_name]
StopFinish(i) ==
    /\ stopPc[i] = "awaiting" /\ hbPc[i] = "done"
    /\ hbReg' = [hbReg EXCEPT ![i] = FALSE]
    /\ hbPc' = [hbPc EXCEPT ![i] = "none"]
    /\ stopPc' = [stopPc EXCEPT ![i] = "idle"]
    /\ UNCHANGED <<storeVars, hbCancel, hbSleep, appVars>>

\* start_leader_heartbeat(lock_name, ttl, interval) while _leader_tasks already
\* names a task for lock_name: line 321 overwrites the entry, and the loop keeps
\* the earlier task scheduled with nothing left that names it.
StartLeaderHeartbeatAgain(i) ==
    /\ hbReg[i] /\ stopPc[i] = "idle" /\ oPc[i] = "none"
    /\ oPc' = [oPc EXCEPT ![i] = hbPc[i]]
    /\ oSleep' = [oSleep EXCEPT ![i] = hbSleep[i]]
    /\ hbPc' = [hbPc EXCEPT ![i] = "created"]
    /\ hbSleep' = [hbSleep EXCEPT ![i] = 0]
    /\ UNCHANGED <<storeVars, hbCancel, hbReg, stopPc, taskVars, httpVars, rlVars,
                   dbVars, sweepVars, batchVars, zVars, waitVars, toggleVars,
                   cacheVars, vacant>>

\* One step of heartbeat() in the task that is no longer named: the same loop
\* body, which no task.cancel() reaches.
OrphanStep(i) ==
    /\ oPc[i] \in HbAwaiting \cup {"created"}
    /\ oPc[i] = "sleep" => oSleep[i] = 0
    /\ \E raises \in BOOLEAN :
          LET pc == oPc[i]
              acquiring == pc \in {"acquire", "reacquire"}
              r == IF pc = "renew" THEN RenewResult(i, HbTtl, raises)
                   ELSE IF acquiring THEN AcquireResult(i, LeaderKey, HbTtl, raises)
                   ELSE [store |-> store, ret |-> FALSE]
              reached == acquiring /\ IsAvailable(i) /\ ~raises
              next == IF pc \in {"created", "sleep"} THEN "is_leader"
                      ELSE IF pc = "is_leader"
                      THEN (IF IsLeaderResult(i, raises) THEN "renew" ELSE "acquire")
                      ELSE IF pc = "renew" /\ ~r.ret THEN "reacquire"
                      ELSE "sleep"
          IN  /\ store' = r.store
              /\ acqEpoch' = EpochAfter(r.store,
                                IF reached THEN EpochWithCall(i, r.ret) ELSE acqEpoch)
              /\ oPc' = [oPc EXCEPT ![i] = next]
              /\ oSleep' = [oSleep EXCEPT ![i] = IF next = "sleep" THEN HbInterval ELSE 0]
    /\ UNCHANGED <<client, lastCall, hbVars, taskVars, httpVars, rlVars, dbVars,
                   sweepVars, batchVars, zVars, waitVars, toggleVars, cacheVars,
                   vacant>>

HbInit ==
    /\ oPc = [i \in Inst |-> "none"]
    /\ oSleep = [i \in Inst |-> 0]
    /\ hbPc = [i \in Inst |-> "none"]
    /\ hbCancel = [i \in Inst |-> FALSE]
    /\ hbSleep = [i \in Inst |-> 0]
    /\ hbReg = [i \in Inst |-> FALSE]
    /\ stopPc = [i \in Inst |-> "idle"]

(***************************************************************************)
(* steam_tasks.py: the three periodic jobs of SteamBackgroundTasks.  Each  *)
(* is a discord.ext.tasks loop; a tick of the loop calls the job function. *)
(***************************************************************************)
Jobs == {"update_prices", "check_discounts", "cleanup_old_data"}

\* Instance i holds the lease in the store.
HoldsLease(i) == RedisGet(store, LeaderKey) = i

\* Whether a tick of job j on instance i goes on to the job's body: none of the
\* three functions asks for or checks leadership; check_discounts returns at
\* once when there is no notification channel (lines 140-146).
BodyRuns(i, j, channel) == j = "check_discounts" => channel

\* A tick of job j on instance i: update_prices(), check_discounts() or
\* cleanup_old_data() is called and, unless it returns at once, starts its body
\* (the fetches, snapshot writes, notifications, deletions).
TaskTick(i, j) ==
    /\ jobPc[i][j] = "idle"
    /\ \E channel \in BOOLEAN :
          IF BodyRuns(i, j, channel)
          THEN /\ jobPc' = [jobPc EXCEPT ![i][j] = "running"]
               /\ tickLeader' = [tickLeader EXCEPT ![i][j] = HoldsLease(i)]
          ELSE UNCHANGED <<jobPc, tickLeader>>
    /\ UNCHANGED <<storeVars, hbVars, httpVars, rlVars, syncVars>>

\* The body of job j on instance i has run to its end.
JobFinish(i, j) ==
    /\ jobPc[i][j] = "running"
    /\ jobPc' = [jobPc EXCEPT ![i][j] = "idle"]
    /\ tickLeader' = [tickLeader EXCEPT ![i][j] = FALSE]
    /\ UNCHANGED <<storeVars, hbVars, httpVars, rlVars, syncVars>>

TaskInit ==
    /\ jobPc = [i \in Inst |-> [j \in Jobs |-> "idle"]]
    /\ tickLeader = [i \in Inst |-> [j \in Jobs |-> FALSE]]

(***************************************************************************)
(* http_session.py: HTTPSessionManager.get and post.  A call stands at one *)
(* of                                                                      *)
(*   "idle"      not called                                                *)
(*   "waiting"   past the cooldown check, waiting for the semaphore        *)
(*   "request"   holding a permit, about to send the request (line 108)    *)
(*   "sleeping"  holding a permit, in asyncio.sleep (lines 122, 138, 151)  *)
(*   "done"      returned or raised; hResult says what                     *)
(* A request and its answer are one step.                                  *)
(***************************************************************************)
\* The concurrent calls of get().
Calls == {"c1", "c2"}

\* The origins requested (urlparse(url).netloc).
Domains == {"store.steampowered.com"}

\* The origin of call c.
DomainOf(c) == "store.steampowered.com"

\* The constructor's concurrency_limit.
ConcurrencyLimit == 1

\* The constructor arguments the manager is built with.
Configs ==
    { [max_retries |-> 3, base_delay |-> 1, max_delay |-> 8],
      [max_retries |-> 2, base_delay |-> 2, max_delay |-> 3],
      [max_retries |-> 0, base_delay |-> 1, max_delay |-> 1] }

\* The values of the Retry-After header of a 429 answer, in seconds.
RetryAfterValues == {1, 4}

\* What one request can end with: a status below 500 other than 429, a 429, a
\* status of 500 or more, or aiohttp.ClientError / asyncio.TimeoutError.
Outcomes == {"ok", "429", "5xx", "neterr"}

\* The statuses a request is answered with.
Statuses == {200, 404, 429, 503}

\* The request raised aiohttp.ClientError or asyncio.TimeoutError: there is no
\* response and no status.
NoResponse == 0

\* A test of the status that takes 4xx answers for server errors.
OutcomeOfRetrying4xx(status) ==
    IF status = NoResponse THEN "neterr"
    ELSE IF status = 429 THEN "429"
    ELSE IF status < 400 THEN "ok"
    ELSE "5xx"

\* The tests of lines 116 and 128 (181 in post) and the except of line 143.
OutcomeOf(status) ==
    IF status = NoResponse THEN "neterr"
    ELSE IF status = 429 THEN "429"
    ELSE IF status < 500 THEN "ok"
    ELSE "5xx"

\* The response has no Retry-After header.
NoHeader == -1

\* The default of response.headers.get('Retry-After', 60).
DefaultRetryAfter == 60

\* Line 117: retry_after = int(response.headers.get('Retry-After', 60))
RetryAfterOf(header) == IF header = NoHeader THEN DefaultRetryAfter ELSE header

\* d is not in _rate_limits.
NoLimit == -1

Min(x, y) == IF x <= y THEN x ELSE y
Max(x, y) == IF x >= y THEN x ELSE y

\* A backoff that is not capped by max_delay.
BackoffUncapped(attempt) == hCfg.base_delay * (2 ^ attempt)

\* _calculate_backoff(attempt)
CalculateBackoff(attempt) ==
    Min(hCfg.base_delay * (2 ^ attempt), hCfg.max_delay)

\* _check_rate_limit(domain): False while the cooldown of the origin runs.
CheckRateLimit(d) == ~(rateLimits[d] # NoLimit /\ rateLimits[d] > 0)

\* _rate_limits after _check_rate_limit(domain): an entry whose time has come
\* is deleted.
RateLimitsAfterCheck(d) ==
    IF rateLimits[d] # NoLimit /\ rateLimits[d] <= 0
    THEN [rateLimits EXCEPT ![d] = NoLimit]
    ELSE rateLimits

\* _set_rate_limit(domain, retry_after)
SetRateLimit(d, retry_after) == [rateLimits EXCEPT ![d] = retry_after]

\* A test that allows one retry more.
MayRetryOnceMore(attempt) == attempt <= hCfg.max_retries

\* The tests `attempt < self.max_retries` of lines 120, 132 and 145.
MayRetry(attempt) == attempt < hCfg.max_retries

\* get(url, retry_on_429=...) up to the semaphore: init_session, the cooldown
\* check, attempt = 0.
GetStart(c) ==
    /\ hPc[c] = "idle"
    /\ \E retry \in BOOLEAN :
          /\ hRetry429' = [hRetry429 EXCEPT ![c] = retry]
          /\ rateLimits' = RateLimitsAfterCheck(DomainOf(c))
          /\ IF CheckRateLimit(DomainOf(c))
             THEN /\ hPc' = [hPc EXCEPT ![c] = "waiting"]
                  /\ hResult' = [hResult EXCEPT ![c] = "none"]
             ELSE /\ hPc' = [hPc EXCEPT ![c] = "done"]
                  /\ hResult' = [hResult EXCEPT ![c] = "None"]
    /\ hAttempt' = [hAttempt EXCEPT ![c] = 0]
    /\ hNet' = [hNet EXCEPT ![c] = 0]
    /\ hSleeps' = [hSleeps EXCEPT ![c] = <<>>]
    /\ hOnly5xx' = [hOnly5xx EXCEPT ![c] = TRUE]
    /\ hOnlyErr' = [hOnlyErr EXCEPT ![c] = TRUE]
    /\ hMethod' = [hMethod EXCEPT ![c] = "get"]
    /\ UNCHANGED <<storeVars, hbVars, taskVars, rlVars, syncVars, hCfg, permits, hSleep, ban>>

\* post(url, ...) up to the semaphore: init_session, attempt = 0.  There is no
\* cooldown check.
PostStart(c) ==
    /\ hPc[c] = "idle"
    /\ hPc' = [hPc EXCEPT ![c] = "waiting"]
    /\ hResult' = [hResult EXCEPT ![c] = "none"]
    /\ hAttempt' = [hAttempt EXCEPT ![c] = 0]
    /\ hNet' = [hNet EXCEPT ![c] = 0]
    /\ hSleeps' = [hSleeps EXCEPT ![c] = <<>>]
    /\ hOnly5xx' = [hOnly5xx EXCEPT ![c] = TRUE]
    /\ hOnlyErr' = [hOnlyErr EXCEPT ![c] = TRUE]
    /\ hMethod' = [hMethod EXCEPT ![c] = "post"]
    /\ UNCHANGED <<storeVars, hbVars, taskVars, rlVars, syncVars, hCfg, permits, rateLimits,
                   hSleep, hRetry429, ban>>

\* async with self.semaphore (line 105, line 171 in post): a permit is taken.
GetEnter(c) ==
    /\ hPc[c] = "waiting" /\ permits > 0
    /\ permits' = permits - 1
    /\ hPc' = [hPc EXCEPT ![c] = "request"]
    /\ UNCHANGED <<storeVars, hbVars, taskVars, rlVars, syncVars, hCfg, rateLimits, hAttempt,
                   hSleep, hRetry429, hResult, hNet, hSleeps, hOnly5xx, hOnlyErr,
                   hMethod, ban>>

\* A leaver giving back one permit more than it took.
LeavesTwice(c, r) ==
    /\ hPc' = [hPc EXCEPT ![c] = "done"]
    /\ hResult' = [hResult EXCEPT ![c] = r]
    /\ permits' = permits + 2
    /\ UNCHANGED <<hSleep, hSleeps>>

\* The call returns or raises r: the semaphore is left.
Leaves(c, r) ==
    /\ hPc' = [hPc EXCEPT ![c] = "done"]
    /\ hResult' = [hResult EXCEPT ![c] = r]
    /\ permits' = permits + 1
    /\ UNCHANGED <<hSleep, hSleeps>>

\* A sleep outside the semaphore: the permit is given back for its duration.
SleepsWithoutPermit(c, delay) ==
    /\ hPc' = [hPc EXCEPT ![c] = "sleeping"]
    /\ hSleep' = [hSleep EXCEPT ![c] = delay]
    /\ hSleeps' = [hSleeps EXCEPT ![c] = Append(@, delay)]
    /\ permits' = permits + 1
    /\ UNCHANGED hResult

\* The call sleeps `delay` seconds before its next request.
Sleeps(c, delay) ==
    /\ hPc' = [hPc EXCEPT ![c] = "sleeping"]
    /\ hSleep' = [hSleep EXCEPT ![c] = delay]
    /\ hSleeps' = [hSleeps EXCEPT ![c] = Append(@, delay)]
    /\ UNCHANGED <<hResult, permits>>

\* One pass of the loop body of get (lines 107-155): self.session.get(...) is
\* answered with `status` (NoResponse: it raised) and, on a 429, with the
\* Retry-After header `header` (NoHeader: without one).
GetAnswered(c, status, header) ==
    LET d == DomainOf(c)
        outcome == OutcomeOf(status)
        retry_after == RetryAfterOf(header)
    IN  /\ hPc[c] = "request" /\ hMethod[c] = "get"
        /\ hNet' = [hNet EXCEPT ![c] = @ + 1]
        /\ hOnly5xx' = [hOnly5xx EXCEPT ![c] = @ /\ outcome = "5xx"]
        /\ hOnlyErr' = [hOnlyErr EXCEPT ![c] = @ /\ outcome = "neterr"]
        /\ ban' = IF outcome = "429" /\ header # NoHeader
                  THEN [ban EXCEPT ![d] = Max(@, retry_after)] ELSE ban
        /\ CASE outcome = "429" ->
                  IF hRetry429[c] /\ MayRetry(hAttempt[c])
                  THEN /\ rateLimits' = SetRateLimit(d, retry_after)
                       /\ Sleeps(c, Min(retry_after, hCfg.max_delay))
                  ELSE /\ Leaves(c, "429")
                       /\ UNCHANGED rateLimits
             [] outcome = "ok" ->
                  /\ Leaves(c, "ok")
                  /\ UNCHANGED rateLimits
             [] outcome = "5xx" ->
                  /\ IF MayRetry(hAttempt[c])
                     THEN Sleeps(c, CalculateBackoff(hAttempt[c]))
                     ELSE Leaves(c, "5xx")
                  /\ UNCHANGED rateLimits
             [] outcome = "neterr" ->
                  /\ IF MayRetry(hAttempt[c])
                     THEN Sleeps(c, CalculateBackoff(hAttempt[c]))
                     ELSE Leaves(c, "raise")
                  /\ UNCHANGED rateLimits
        /\ UNCHANGED <<storeVars, hbVars, taskVars, rlVars, syncVars, hCfg, hAttempt,
                       hRetry429, hMethod>>

\* A request of get() with any answer whose Retry-After header is in headers.
GetRequestWith(c, headers) ==
    \E status \in Statuses \cup {NoResponse}, header \in headers :
        GetAnswered(c, status, header)

\* A request of get() whose 429 answers carry a Retry-After header.
GetRequest(c) == GetRequestWith(c, RetryAfterValues)

\* One pass of the loop body of post (lines 173-198): every status below 500,
\* 429 too, is returned; there is no cooldown to set.
PostAnswered(c, status) ==
    LET outcome == OutcomeOf(status)
    IN  /\ hPc[c] = "request" /\ hMethod[c] = "post"
        /\ hNet' = [hNet EXCEPT ![c] = @ + 1]
        /\ hOnly5xx' = [hOnly5xx EXCEPT ![c] = @ /\ outcome = "5xx"]
        /\ hOnlyErr' = [hOnlyErr EXCEPT ![c] = @ /\ outcome = "neterr"]
        /\ CASE outcome \in {"ok", "429"} -> Leaves(c, outcome)
             [] outcome = "5xx" ->
                  IF MayRetry(hAttempt[c])
                  THEN Sleeps(c, CalculateBackoff(hAttempt[c]))
                  ELSE Leaves(c, "5xx")
             [] outcome = "neterr" ->
                  IF MayRetry(hAttempt[c])
                  THEN Sleeps(c, CalculateBackoff(hAttempt[c]))
                  ELSE Leaves(c, "raise")
        /\ UNCHANGED <<storeVars, hbVars, taskVars, rlVars, syncVars, hCfg, hAttempt,
                       hRetry429, hMethod, rateLimits, ban>>

PostRequest(c) ==
    \E status \in Statuses \cup {NoResponse} : PostAnswered(c, status)

\* The sleep is over: attempt += 1 and the loop condition
\* `attempt <= self.max_retries` is tested; were it false the call would leave
\* the loop and return None (line 157; lines 186-187, 172 and 200 in post).
GetWake(c) ==
    /\ hPc[c] = "sleeping" /\ hSleep[c] = 0
    /\ hAttempt' = [hAttempt EXCEPT ![c] = @ + 1]
    /\ IF hAttempt[c] + 1 <= hCfg.max_retries
       THEN /\ hPc' = [hPc EXCEPT ![c] = "request"]
            /\ UNCHANGED <<hResult, permits>>
       ELSE /\ hPc' = [hPc EXCEPT ![c] = "done"]
            /\ hResult' = [hResult EXCEPT ![c] = "None"]
            /\ permits' = permits + 1
    /\ UNCHANGED <<storeVars, hbVars, taskVars, rlVars, syncVars, hCfg, rateLimits, hSleep,
                   hRetry429, hNet, hSleeps, hOnly5xx, hOnlyErr, hMethod, ban>>

\* The caller has its answer; the call's coroutine is gone.
GetReturn(c) ==
    /\ hPc[c] = "done"
    /\ hPc' = [hPc EXCEPT ![c] = "idle"]
    /\ hResult' = [hResult EXCEPT ![c] = "none"]
    /\ hAttempt' = [hAttempt EXCEPT ![c] = 0]
    /\ hNet' = [hNet EXCEPT ![c] = 0]
    /\ hSleeps' = [hSleeps EXCEPT ![c] = <<>>]
    /\ hOnly5xx' = [hOnly5xx EXCEPT ![c] = TRUE]
    /\ hOnlyErr' = [hOnlyErr EXCEPT ![c] = TRUE]
    /\ hMethod' = [hMethod EXCEPT ![c] = "get"]
    /\ hRetry429' = [hRetry429 EXCEPT ![c] = TRUE]
    /\ UNCHANGED <<storeVars, hbVars, taskVars, rlVars, syncVars, hCfg, permits, rateLimits,
                   hSleep, ban>>

\* The manager as constructed with cfg, with no call under way.
HttpIdle(cfg) ==
    /\ hCfg = cfg
    /\ permits = ConcurrencyLimit
    /\ rateLimits = [d \in Domains |-> NoLimit]
    /\ hPc = [c \in Calls |-> "idle"]
    /\ hAttempt = [c \in Calls |-> 0]
    /\ hSleep = [c \in Calls |-> 0]
    /\ hRetry429 = [c \in Calls |-> TRUE]
    /\ hResult = [c \in Calls |-> "none"]
    /\ hNet = [c \in Calls |-> 0]
    /\ hSleeps = [c \in Calls |-> <<>>]
    /\ hOnly5xx = [c \in Calls |-> TRUE]
    /\ hOnlyErr = [c \in Calls |-> TRUE]
    /\ hMethod = [c \in Calls |-> "get"]
    /\ ban = [d \in Domains |-> 0]

(***************************************************************************)
(* rate_limiter.py: RateLimiter.  A timestamp is kept as its age           *)
(* now - ts in seconds; an age that has reached the cap is not counted     *)
(* further, every test on it having the same answer from there on.         *)
(***************************************************************************)
\* max_requests and window_seconds of the limiter.
LimMaxRequests == 2
LimWindow == 2

\* The keys acquire is called with.
LimKeys == {"steam_api", "discord_api"}

\* The test of line 50 letting one request too many through.
HasRoomOffByOne(n) == n <= LimMaxRequests

\* Line 50: len(self.requests[key]) < self.max_requests
HasRoom(n) == n < LimMaxRequests

\* Line 47: the timestamps with ts > now - window, that is, of age < window.
Pruned(ages) == SelectSeq(ages, LAMBDA age : age < LimWindow)

\* acquire(key): the list after the call and the value returned.
AcquireOutcome(k) ==
    LET kept == Pruned(requests[k])
    IN  IF HasRoom(Len(kept))
        THEN [ret |-> TRUE, list |-> Append(kept, 0)]
        ELSE [ret |-> FALSE, list |-> kept]

LimiterAcquire(k) ==
    LET r == AcquireOutcome(k)
    IN  /\ requests' = [requests EXCEPT ![k] = r.list]
        /\ admitted' = IF r.ret THEN [admitted EXCEPT ![k] = Append(@, 0)]
                       ELSE admitted
        /\ lastAcq' = [key |-> k, ret |-> r.ret, seq |-> 1 - lastAcq.seq]
        /\ UNCHANGED <<storeVars, hbVars, taskVars, httpVars, syncVars>>

\* The ages a second later, none counted beyond cap.
Older(ages, cap) == [n \in 1..Len(ages) |-> Min(ages[n] + 1, cap)]

LimiterInit ==
    /\ requests = [k \in LimKeys |-> <<>>]
    /\ admitted = [k \in LimKeys |-> <<>>]
    /\ lastAcq = [key |-> "nil", ret |-> FALSE, seq |-> 0]

(***************************************************************************)
(* steam_history.py: SteamPriceHistory over the tables steam_price_history,*)
(* steam_price_summary and steam_tracked_games.  Every statement is sent   *)
(* on a pool connection outside any transaction block, so each statement   *)
(* is committed by itself.  A timestamp is kept as its age; the ages of    *)
(* the snapshot rows and of the summary are counted in days.               *)
(***************************************************************************)
\* discount_percent is drawn from 0..MaxDiscount.
MaxDiscount == 2

\* The days argument of cleanup_old_history is drawn from 1..MaxRetainDays.
MaxRetainDays == 1

\* save_price_snapshot is not called while the snapshot table holds MaxRows rows.
MaxRows == 2

\* An age in days that has reached MaxAge is not counted further.
MaxAge == MaxRetainDays + 1

\* The dates of the summary are compared with one another and with `now`
\* only; their ages are not counted beyond MaxSeenAge days.
MaxSeenAge == 1

\* The appids, the country codes and the concurrent callers of
\* save_price_snapshot.
Apps == {10, 20}
Regions == {"us", "ru"}
Writers == {"w1", "w2"}
Discounts == 0..MaxDiscount

\* SQL NULL, Python None.
Null == -1

\* No row of steam_price_summary for an appid.
NoSummary == [present |-> FALSE, first_seen |-> 0, last_seen |-> 0,
              min_discount |-> Null, min_discount_date |-> Null,
              last_discount |-> Null]

NoArgs == [appid |-> 0, cc |-> "nil", discount |-> 0]

\* What _update_summary uses of the row it read: whether there is one, and its
\* min_discount.
ReadRow(row) == [present |-> row.present, min_discount |-> row.min_discount]

\* discount_percent if discount_percent > 0 else None
PositiveOrNull(d) == IF d > 0 THEN d ELSE Null

\* A first summary row that does not take the discount in.
NewSummaryRowNoDiscount(d, now) ==
    [present |-> TRUE, first_seen |-> now, last_seen |-> now,
     min_discount |-> Null, min_discount_date |-> now, last_discount |-> Null]

\* The row of the INSERT INTO steam_price_summary of lines 53-58.
NewSummaryRow(d, now) ==
    [present |-> TRUE, first_seen |-> now, last_seen |-> now,
     min_discount |-> PositiveOrNull(d), min_discount_date |-> now,
     last_discount |-> PositiveOrNull(d)]

\* The test on the minimum without `discount_percent > 0`.
SetsMinAnyDiscount(existing, d) ==
    existing.min_discount = Null \/ d < existing.min_discount

\* Lines 64-66: whether the UPDATE sets min_discount, decided on the row that
\* _update_summary read.
SetsMin(existing, d) ==
    d > 0 /\ (existing.min_discount = Null \/ d < existing.min_discount)

\* The row after the UPDATE of lines 60-82: last_seen always, min_discount when
\* SetsMin, last_discount when the discount is positive; every other column
\* keeps the value the row has when the UPDATE runs.
UpdatedSummaryRow(row, existing, d, now) ==
    [row EXCEPT !.last_seen = now,
                !.min_discount = IF SetsMin(existing, d) THEN d ELSE @,
                !.min_discount_date = IF SetsMin(existing, d) THEN now ELSE @,
                !.last_discount = IF d > 0 THEN d ELSE @]

\* INSERT INTO steam_price_summary: the table holds one row per appid, a
\* second row for the same appid is refused.
SummaryInsert(tbl, a, row) ==
    IF tbl[a].present THEN [ok |-> FALSE, table |-> tbl]
    ELSE [ok |-> TRUE, table |-> [tbl EXCEPT ![a] = row]]

\* The row of the INSERT INTO steam_price_history of lines 29-33, fetched_at =
\* NOW(); `by` remembers the call that inserted it until that call returns,
\* and then whether it returned True ("saved") or False ("failed").
SnapshotRow(w, args) ==
    [appid |-> args.appid, cc |-> args.cc, discount |-> args.discount,
     age |-> 0, by |-> w]

\* The snapshot rows once the call of writer w has returned ret.
Settled(h, w, ret) ==
    [n \in 1..Len(h) |->
        IF h[n].by = w
        THEN [h[n] EXCEPT !.by = IF ret THEN "saved" ELSE "failed"]
        ELSE h[n]]

\* The rows of appid a.
RowsOf(h, a) == SelectSeq(h, LAMBDA r : r.appid = a)

\* save_price_snapshot returns ret (lines 36 and 40).
SaveReturns(w, ret) ==
    /\ svPc' = [svPc EXCEPT ![w] = "done"]
    /\ svRet' = [svRet EXCEPT ![w] = ret]

\* A caller calls save_price_snapshot(appid, cc, ..., discount_percent, ...).
SaveCall(w, a, cc, d) ==
    /\ svPc[w] = "idle"
    /\ Len(history) < MaxRows
    /\ svPc' = [svPc EXCEPT ![w] = "insert"]
    /\ svArgs' = [svArgs EXCEPT ![w] = [appid |-> a, cc |-> cc, discount |-> d]]
    /\ UNCHANGED <<history, summary, tracked, svExisting, svNow, svRet,
                   lastStats, lastCleanup, lastDue>>
    /\ UNCHANGED <<storeVars, hbVars, taskVars, httpVars, rlVars, extVars, sweepVars, batchVars>>

\* Lines 28-33: the snapshot row is inserted, or the statement (or taking the
\* connection) raises and the call returns False.
SaveInsert(w) ==
    /\ svPc[w] = "insert"
    /\ \E raises \in BOOLEAN :
          IF raises
          THEN /\ SaveReturns(w, FALSE)
               /\ UNCHANGED history
          ELSE /\ history' = Append(history, SnapshotRow(w, svArgs[w]))
               /\ svPc' = [svPc EXCEPT ![w] = "read"]
               /\ UNCHANGED svRet
    /\ UNCHANGED <<summary, tracked, svArgs, svExisting, svNow,
                   lastStats, lastCleanup, lastDue>>
    /\ UNCHANGED <<storeVars, hbVars, taskVars, httpVars, rlVars, extVars, sweepVars, batchVars>>

\* Lines 45-50: existing = SELECT * FROM steam_price_summary WHERE appid = $1,
\* now = datetime.utcnow().
SaveRead(w) ==
    /\ svPc[w] = "read"
    /\ \E raises \in BOOLEAN :
          IF raises
          THEN /\ SaveReturns(w, FALSE)
               /\ history' = Settled(history, w, FALSE)
               /\ UNCHANGED <<svExisting, svNow>>
          ELSE /\ svExisting' = [svExisting EXCEPT ![w] = ReadRow(summary[svArgs[w].appid])]
               /\ svNow' = [svNow EXCEPT ![w] = 0]
               /\ svPc' = [svPc EXCEPT ![w] = "write"]
               /\ UNCHANGED <<history, svRet>>
    /\ UNCHANGED <<summary, tracked, svArgs, lastStats, lastCleanup, lastDue>>
    /\ UNCHANGED <<storeVars, hbVars, taskVars, httpVars, rlVars, extVars, sweepVars, batchVars>>

\* Lines 52-82: the INSERT when no row was read, the UPDATE otherwise; then
\* the call returns True, or False when the statement raised.
SaveWrite(w) ==
    /\ svPc[w] = "write"
    /\ \E raises \in BOOLEAN :
          LET a == svArgs[w].appid
              d == svArgs[w].discount
              ins == SummaryInsert(summary, a, NewSummaryRow(d, svNow[w]))
              ok == ~raises /\ (svExisting[w].present \/ ins.ok)
          IN  /\ summary' =
                    IF ~ok THEN summary
                    ELSE IF ~svExisting[w].present THEN ins.table
                    ELSE IF ~summary[a].present THEN summary
                    ELSE [summary EXCEPT ![a] =
                             UpdatedSummaryRow(@, svExisting[w], d, svNow[w])]
              /\ SaveReturns(w, ok)
              /\ history' = Settled(history, w, ok)
    /\ UNCHANGED <<tracked, svArgs, svExisting, svNow, lastStats, lastCleanup, lastDue>>
    /\ UNCHANGED <<storeVars, hbVars, taskVars, httpVars, rlVars, extVars, sweepVars, batchVars>>

\* The caller has (or drops) the result; the call's coroutine is gone.
SaveReturn(w) ==
    /\ svPc[w] = "done"
    /\ svPc' = [svPc EXCEPT ![w] = "idle"]
    /\ svArgs' = [svArgs EXCEPT ![w] = NoArgs]
    /\ svExisting' = [svExisting EXCEPT ![w] = ReadRow(NoSummary)]
    /\ svNow' = [svNow EXCEPT ![w] = 0]
    /\ svRet' = [svRet EXCEPT ![w] = FALSE]
    /\ UNCHANGED <<history, summary, tracked, lastStats, lastCleanup, lastDue>>
    /\ UNCHANGED <<storeVars, hbVars, taskVars, httpVars, rlVars, extVars, sweepVars, batchVars>>

\* Lines 226-227: the rows the DELETE of cleanup_old_history(days) matches.
CleanupDeletesAnyOld(r, days) == r.age > days

CleanupDeletes(r, days) == r.age > days /\ r.discount = 0

\* cleanup_old_history(days): True when the DELETE ran, False when it raised.
CleanupOldHistory(days) ==
    /\ \E raises \in BOOLEAN :
          /\ history' = IF raises THEN history
                        ELSE SelectSeq(history, LAMBDA r : ~CleanupDeletes(r, days))
          /\ lastCleanup' = [days |-> days, ret |-> ~raises]
    /\ UNCHANGED <<summary, tracked, svPc, svArgs, svExisting, svNow, svRet,
                   lastStats, lastDue>>
    /\ UNCHANGED <<storeVars, hbVars, taskVars, httpVars, rlVars, extVars, sweepVars, batchVars>>

\* The least and the greatest of a non-empty set of numbers.
MinOf(S) == CHOOSE x \in S : \A y \in S : x <= y
MaxOf(S) == CHOOSE x \in S : \A y \in S : x >= y

\* The positive discounts of a sequence of rows.
PositiveDiscounts(rows) ==
    {rows[n].discount : n \in {m \in 1..Len(rows) : rows[m].discount > 0}}

\* The discount of the latest row with a positive discount, or NULL.
LastPositive(rows) ==
    LET idx == {n \in 1..Len(rows) : rows[n].discount > 0}
    IN  IF idx = {} THEN Null
        ELSE rows[CHOOSE n \in idx : \A m \in idx : m <= n].discount

\* The age of the row of the second query (ORDER BY discount_percent ASC,
\* fetched_at DESC LIMIT 1): the youngest of the rows with the least positive
\* discount.
MinDiscountDate(rows) ==
    LET least == MinOf(PositiveDiscounts(rows))
    IN  MinOf({rows[n].age : n \in {m \in 1..Len(rows) : rows[m].discount = least}})

\* _calculate_stats_from_history(appid): the statistics taken from the
\* snapshot rows (lines 153-188).
StatsFromHistory(a) ==
    LET rows == RowsOf(history, a)
        pos == PositiveDiscounts(rows)
        ages == {rows[n].age : n \in 1..Len(rows)}
    IN  [min_discount |-> IF pos = {} THEN Null ELSE MinOf(pos),
         min_discount_date |-> IF pos = {} THEN Null ELSE MinDiscountDate(rows),
         last_discount |-> LastPositive(rows),
         total_snapshots |-> Len(rows),
         first_seen |-> IF ages = {} THEN Null ELSE MaxOf(ages),
         last_seen |-> IF ages = {} THEN Null ELSE MinOf(ages)]

\* Statistics that are always taken from the snapshot rows.
DiscountStatsFromLog(a) == StatsFromHistory(a)

\* get_discount_stats(appid): the summary row with COUNT(*) of the snapshot
\* rows, or the statistics from the snapshot rows when there is no summary row;
\* {} when a query raised.
DiscountStats(a) ==
    IF summary[a].present
    THEN [min_discount |-> summary[a].min_discount,
          min_discount_date |-> summary[a].min_discount_date,
          last_discount |-> summary[a].last_discount,
          total_snapshots |-> Len(RowsOf(history, a)),
          first_seen |-> summary[a].first_seen,
          last_seen |-> summary[a].last_seen]
    ELSE StatsFromHistory(a)

NoStats == [min_discount |-> Null, min_discount_date |-> Null,
            last_discount |-> Null, total_snapshots |-> 0,
            first_seen |-> Null, last_seen |-> Null]

GetDiscountStats(a) ==
    /\ \E raises \in BOOLEAN :
          lastStats' = [appid |-> a, ok |-> ~raises,
                        stats |-> IF raises THEN NoStats ELSE DiscountStats(a)]
    /\ UNCHANGED <<history, summary, tracked, svPc, svArgs, svExisting, svNow,
                   svRet, lastCleanup, lastDue>>
    /\ UNCHANGED <<storeVars, hbVars, taskVars, httpVars, rlVars, extVars, sweepVars, batchVars>>

(***************************************************************************)
(* steam_tracked_games and the notification query.  The age of             *)
(* last_notified is counted in hours.                                      *)
(***************************************************************************)
\* The hours_since_last argument of get_games_needing_notification is drawn
\* from 1..MaxCooldown.
MaxCooldown == 1

\* An age in hours that has reached MaxNotifiedAge is not counted further.
MaxNotifiedAge == MaxCooldown + 1

\* The subscriptions, each a key (discord_id, appid, guild_id), and the appid
\* of each: the subscriptions of the model are for different appids.
Subs == {"s1", "s2"}
SubApp(s) == IF s = "s1" THEN 10 ELSE 20

\* The values of notify_threshold.
Thresholds == 1..MaxDiscount

\* notify_threshold of a new row of toggle_tracking (50), on the scale of the
\* model's discounts.
DefaultThreshold == MaxDiscount

\* No row of steam_tracked_games for a key.
NoTrack == [present |-> FALSE, threshold |-> 0, active |-> FALSE,
            notified |-> Null]

\* add_tracked_game(discord_id, appid, game_name, guild_id, notify_threshold):
\* INSERT ... ON CONFLICT (discord_id, appid, guild_id) DO UPDATE.
AddTrackedGame(s, thr) ==
    /\ \E raises \in BOOLEAN :
          tracked' =
              IF raises THEN tracked
              ELSE IF tracked[s].present
              THEN [tracked EXCEPT ![s].threshold = thr, ![s].active = TRUE]
              ELSE [tracked EXCEPT ![s] =
                       [present |-> TRUE, threshold |-> thr, active |-> TRUE,
                        notified |-> Null]]
    /\ UNCHANGED <<history, summary, svPc, svArgs, svExisting, svNow, svRet,
                   lastStats, lastCleanup, lastDue>>
    /\ UNCHANGED <<storeVars, hbVars, taskVars, httpVars, rlVars, extVars, sweepVars, batchVars>>

\* remove_tracked_game(discord_id, appid, guild_id): UPDATE ... SET is_active = FALSE
RemoveTrackedGame(s) ==
    /\ \E raises \in BOOLEAN :
          tracked' =
              IF raises \/ ~tracked[s].present THEN tracked
              ELSE [tracked EXCEPT ![s].active = FALSE]
    /\ UNCHANGED <<history, summary, svPc, svArgs, svExisting, svNow, svRet,
                   lastStats, lastCleanup, lastDue>>
    /\ UNCHANGED <<storeVars, hbVars, taskVars, httpVars, rlVars, extVars, sweepVars, batchVars>>

\* The transaction of toggle_tracking: a new row with threshold 50 when there
\* is none, else is_active flipped and last_notified set to NULL.
Toggled(s, raises) ==
    IF raises THEN tracked
    ELSE IF ~tracked[s].present
    THEN [tracked EXCEPT ![s] =
             [present |-> TRUE, threshold |-> DefaultThreshold, active |-> TRUE,
              notified |-> Null]]
    ELSE [tracked EXCEPT ![s].active = ~@, ![s].notified = Null]

\* toggle_tracking(db_pool, discord_id, appid, guild_id) without a redis_client.
ToggleTracking(s) ==
    /\ \E raises \in BOOLEAN : tracked' = Toggled(s, raises)
    /\ UNCHANGED <<history, summary, svPc, svArgs, svExisting, svNow, svRet,
                   lastStats, lastCleanup, lastDue>>
    /\ UNCHANGED <<storeVars, hbVars, taskVars, httpVars, rlVars, extVars, sweepVars, batchVars>>

\* mark_notified(discord_id, appid, guild_id): UPDATE ... SET last_notified = NOW()
MarkNotified(s) ==
    /\ \E raises \in BOOLEAN :
          tracked' =
              IF raises \/ ~tracked[s].present THEN tracked
              ELSE [tracked EXCEPT ![s].notified = 0]
    /\ UNCHANGED <<history, summary, svPc, svArgs, svExisting, svNow, svRet,
                   lastStats, lastCleanup, lastDue>>
    /\ UNCHANGED <<storeVars, hbVars, taskVars, httpVars, rlVars, extVars, sweepVars, batchVars>>

\* The rows of the LATERAL subquery for subscription s (lines 326-330): the
\* 'us' snapshots of its appid with discount_percent >= notify_threshold, in
\* the order of fetched_at.
Matching(s) ==
    SelectSeq(history,
              LAMBDA r : /\ r.appid = SubApp(s)
                         /\ r.cc = "us"
                         /\ r.discount >= tracked[s].threshold)

\* The WHERE clause of lines 333-337 without `t.is_active = TRUE`.
NotifiableIgnoringActive(s, hours) ==
    /\ tracked[s].present
    /\ tracked[s].notified = Null \/ tracked[s].notified > hours

\* The WHERE clause of lines 333-337.
Notifiable(s, hours) ==
    /\ tracked[s].present
    /\ tracked[s].active
    /\ tracked[s].notified = Null \/ tracked[s].notified > hours

\* ORDER BY fetched_at DESC LIMIT 1: the discount of the latest matching
\* snapshot, NULL when there is none.
LatestMatching(s) ==
    LET m == Matching(s)
    IN  IF m = <<>> THEN Null ELSE m[Len(m)].discount

\* The rows get_games_needing_notification(hours) returns: each subscription
\* the WHERE clause lets through that has a matching snapshot, with the
\* discount of the latest one.
DueNotifications(hours) ==
    {[sub |-> s, discount |-> LatestMatching(s)] :
        s \in {t \in Subs : Notifiable(t, hours) /\ LatestMatching(t) # Null}}

\* get_games_needing_notification(hours_since_last): [] when the query raised.
GetGamesNeedingNotification(hours) ==
    /\ \E raises \in BOOLEAN :
          lastDue' = [hours |-> hours, ok |-> ~raises,
                      rows |-> IF raises THEN {} ELSE DueNotifications(hours)]
    /\ UNCHANGED <<history, summary, tracked, svPc, svArgs, svExisting, svNow,
                   svRet, lastStats, lastCleanup>>
    /\ UNCHANGED <<storeVars, hbVars, taskVars, httpVars, rlVars, extVars, sweepVars, batchVars>>

\* INTERVAL '24 hours' of steam_tasks.py line 182, in days.
NotifyWindowDays == 1

\* A day passes: the snapshot rows, the dates of the summary and the `now` a
\* call of _update_summary holds grow a day older.
DayPasses ==
    /\ history' = [n \in 1..Len(history) |->
                      [history[n] EXCEPT !.age = Min(@ + 1, MaxAge)]]
    /\ summary' = [a \in Apps |->
                      IF summary[a].present
                      THEN [summary[a] EXCEPT !.first_seen = Min(@ + 1, MaxSeenAge),
                                              !.min_discount_date =
                                                  IF @ = Null THEN Null
                                                  ELSE Min(@ + 1, MaxSeenAge),
                                              !.last_seen = Min(@ + 1, MaxSeenAge)]
                      ELSE summary[a]]
    /\ svNow' = [w \in Writers |->
                    IF svPc[w] = "write" THEN Min(svNow[w] + 1, MaxSeenAge) ELSE svNow[w]]
    /\ swDelivered' = [s \in Subs |->
                          IF swDelivered[s] = Null THEN Null
                          ELSE Min(swDelivered[s] + 1, NotifyWindowDays)]
    /\ UNCHANGED <<tracked, svPc, svArgs, svExisting, svRet,
                   lastStats, lastCleanup, lastDue>>
    /\ UNCHANGED <<swPc, swTodo, swSent, swDue>>
    /\ UNCHANGED <<storeVars, hbVars, taskVars, httpVars, rlVars, extVars, batchVars>>

\* self._cache_ttl = 3600, in hours.
CacheTtl == 1

\* The hours of a day: timedelta.seconds is the part of the difference below one
\* day, the days being held by timedelta.days.
HoursPerDay == 24

\* The age in hours at which an entry of the cache stops ageing here.
MaxCacheAge == 26

\* (datetime.utcnow() - cached_time).seconds < self._cache_ttl
CacheHit(age) == (age % HoursPerDay) < CacheTtl

\* No entry for the key in self._cache.
NoEntry == [present |-> FALSE, age |-> 0, error |-> FALSE, discount |-> 0]

\* An hour passes: every last_notified and the entry of the price cache grow an
\* hour older.
HourPasses ==
    /\ cache' = IF cache.present
                THEN [cache EXCEPT !.age = Min(@ + 1, MaxCacheAge)] ELSE cache
    /\ tracked' = [s \in Subs |->
                      IF tracked[s].notified = Null THEN tracked[s]
                      ELSE [tracked[s] EXCEPT !.notified = Min(@ + 1, MaxNotifiedAge)]]
    /\ UNCHANGED <<history, summary, svPc, svArgs, svExisting, svNow, svRet,
                   lastStats, lastCleanup, lastDue>>
    /\ UNCHANGED <<storeVars, hbVars, taskVars, httpVars, rlVars, zVars, waitVars,
                   orphanVars, toggleVars, lastPrice, vacant, sweepVars, batchVars>>

RECURSIVE Replay(_, _)
\* The summary table after save_price_snapshot was called for each of rows in
\* turn, one call at a time and each returning True, starting from tbl.
Replay(tbl, rows) ==
    IF rows = <<>> THEN tbl
    ELSE LET a == Head(rows).appid
             d == Head(rows).discount
             row == IF tbl[a].present
                    THEN UpdatedSummaryRow(tbl[a], ReadRow(tbl[a]), d, 0)
                    ELSE NewSummaryRow(d, 0)
         IN  Replay([tbl EXCEPT ![a] = row], Tail(rows))

\* The snapshot tables that calls of save_price_snapshot for appid 10, each
\* returning True, leave on one day.
SavedRows == [appid : {10}, cc : Regions, discount : Discounts, age : {0},
              by : {"saved"}]
Histories == UNION {[1..n -> SavedRows] : n \in 0..MaxRows}

\* The snapshot tables that calls of save_price_snapshot for appid 10 leave on
\* one day, some of the calls returning False after their INSERT.
LoggedRows == [appid : {10}, cc : {"us"}, discount : Discounts, age : {0},
               by : {"saved", "failed"}]
Logs == UNION {[1..n -> LoggedRows] : n \in 0..MaxRows}

\* No subscription, or the subscription s2 alone as add_tracked_game leaves it
\* with the lowest threshold.
TrackedAtStart ==
    { [s \in Subs |-> NoTrack],
      [s \in Subs |-> IF s = "s2"
                      THEN [present |-> TRUE, threshold |-> 1, active |-> TRUE,
                            notified |-> Null]
                      ELSE NoTrack] }

\* The tables holding the snapshots h and the subscriptions t, no call under
\* way.
DbHolding(h, t) ==
    /\ history = h
    /\ summary = Replay([a \in Apps |-> NoSummary],
                        SelectSeq(h, LAMBDA r : r.by = "saved"))
    /\ tracked = t
    /\ svPc = [w \in Writers |-> "idle"]
    /\ svArgs = [w \in Writers |-> NoArgs]
    /\ svExisting = [w \in Writers |-> ReadRow(NoSummary)]
    /\ svNow = [w \in Writers |-> 0]
    /\ svRet = [w \in Writers |-> FALSE]
    /\ lastStats = [appid |-> 0, ok |-> FALSE, stats |-> NoStats]
    /\ lastCleanup = [days |-> 0, ret |-> FALSE]
    /\ lastDue = [hours |-> 0, ok |-> FALSE, rows |-> {}]

\* Empty tables, no call under way.
DbInit == DbHolding(<<>>, [s \in Subs |-> NoTrack])

(***************************************************************************)
(* steam_tasks.py: the body of check_discounts, one step per tracked row.  *)
(***************************************************************************)
\* hours_since_last = 24, the default of get_games_needing_notification, on the
\* scale of the model's cooldowns.
SweepCooldown == MaxCooldown

RECURSIVE SortedSeq(_)
\* The numbers of S in ascending order.
SortedSeq(S) ==
    IF S = {} THEN <<>>
    ELSE LET m == MinOf(S) IN <<m>> \o SortedSeq(S \ {m})

\* The subscriptions with a row for appid a.
SubsOf(a) == {s \in Subs : tracked[s].present /\ SubApp(s) = a}

\* Lines 152-157: SELECT DISTINCT ON (appid) ... ORDER BY appid, created_at DESC:
\* for each appid that has rows one of them (the one created last), active or
\* not, in the order of the appids.
TrackedDistinctOnAppid ==
    LET apps == SortedSeq({a \in Apps : SubsOf(a) # {}})
        latest(a) == CHOOSE s \in SubsOf(a) : TRUE
    IN  [n \in 1..Len(apps) |->
            [sub |-> latest(apps[n]), threshold |-> tracked[latest(apps[n])].threshold]]

\* Lines 178-183: last_notify, the latest snapshot of the appid within 24 hours
\* with discount_percent >= threshold, is not NULL.
SnapshotWithin24h(a, thr) ==
    \E n \in 1..Len(history) :
        /\ history[n].appid = a
        /\ history[n].discount >= thr
        /\ history[n].age <= NotifyWindowDays

\* What fetch_user and user.send of lines 187-209 can come to.
Deliveries == {"sent", "forbidden", "no_user", "error"}

\* check_discounts() with a notification channel, up to the loop: the tracked
\* rows are read.  When the query raises the run ends (line 218).  swDue keeps
\* what get_games_needing_notification returns on the same tables at this
\* moment (nothing when the database fails); the run does not call it.
CheckDiscountsStart ==
    /\ swPc = "idle"
    /\ \E raises \in BOOLEAN :
          /\ swPc' = "loop"
          /\ swTodo' = IF raises THEN <<>> ELSE TrackedDistinctOnAppid
          /\ swDue' = IF raises THEN {}
                      ELSE {r.sub : r \in DueNotifications(SweepCooldown)}
    /\ swSent' = [s \in Subs |-> 0]
    /\ UNCHANGED swDelivered
    /\ UNCHANGED <<storeVars, hbVars, taskVars, httpVars, rlVars, extVars, dbVars, batchVars>>

\* One pass of the loop of lines 163-214 for the next tracked row: the price
\* is fetched; when its discount reaches the threshold and no snapshot of the
\* last 24 hours does, the user is fetched and the embed sent.  No statement
\* of the pass writes to steam_tracked_games.
CheckDiscountsItem ==
    /\ swPc = "loop" /\ swTodo # <<>>
    /\ \E raises \in BOOLEAN, d \in Discounts, delivery \in Deliveries :
          LET track == Head(swTodo)
              sends == /\ ~raises
                       /\ d >= track.threshold
                       /\ ~SnapshotWithin24h(SubApp(track.sub), track.threshold)
                       /\ delivery \in {"sent", "forbidden"}
          IN  /\ swSent' = IF sends THEN [swSent EXCEPT ![track.sub] = @ + 1]
                            ELSE swSent
              /\ swDelivered' = IF sends /\ delivery = "sent"
                                THEN [swDelivered EXCEPT ![track.sub] = 0]
                                ELSE swDelivered
    /\ swTodo' = Tail(swTodo)
    /\ UNCHANGED <<swPc, swDue>>
    /\ UNCHANGED <<storeVars, hbVars, taskVars, httpVars, rlVars, extVars, dbVars, batchVars>>

\* The loop is over: check_discounts returns.
CheckDiscountsEnd ==
    /\ swPc = "loop" /\ swTodo = <<>>
    /\ swPc' = "idle"
    /\ UNCHANGED <<swTodo, swSent, swDue, swDelivered>>
    /\ UNCHANGED <<storeVars, hbVars, taskVars, httpVars, rlVars, extVars, dbVars, batchVars>>

SweepInit ==
    /\ swPc = "idle"
    /\ swTodo = <<>>
    /\ swSent = [s \in Subs |-> 0]
    /\ swDue = {}
    /\ swDelivered = [s \in Subs |-> Null]

(***************************************************************************)
(* steam_tasks.py: the body of update_prices.  Its calls of                *)
(* save_price_snapshot are the calls of writer "w1".                       *)
(***************************************************************************)
\* rows of line 79: the appids of the games table.
BatchRows == <<10, 20>>

\* The writer whose calls of save_price_snapshot are those of update_prices.
BatchWriter == "w1"

\* What get_price_info(appid, 'us', use_cache=False) of line 97 comes to, as
\* the loop tells the cases apart: it raises, or returns a result with
\* 'error', one with 'is_free', or a price.
FetchOutcomes == {"raise", "error", "free", "price"}

\* update_prices() up to the loop: the rows are read (lines 77-90); when that
\* raises the run ends in the handler of line 127.
UpdatePricesStart ==
    /\ upPc = "idle"
    /\ Len(history) + Len(BatchRows) <= MaxRows
    /\ \E raises \in BOOLEAN :
          upPc' = IF raises THEN "failed" ELSE "fetch"
    /\ upIdx' = 0 /\ upUpdated' = 0 /\ upErrors' = 0 /\ upFailed' = 0
    /\ UNCHANGED <<storeVars, hbVars, taskVars, httpVars, rlVars, extVars, dbVars, sweepVars>>

\* The item at idx is done with; the loop goes on or is over (line 125).
NextItem(idx) ==
    /\ upIdx' = idx + 1
    /\ upPc' = IF idx + 1 < Len(BatchRows) THEN "fetch" ELSE "done"

\* Lines 93-100 and 113-123 for the next item: the price is fetched.  An
\* exception adds one to errors; a result with 'error' or 'is_free' is passed
\* over; for a price save_price_snapshot is called.
UpdatePricesFetch ==
    /\ upPc = "fetch" /\ svPc[BatchWriter] = "idle"
    /\ \E outcome \in FetchOutcomes, d \in Discounts :
          CASE outcome = "raise" ->
                  /\ upErrors' = upErrors + 1
                  /\ upFailed' = upFailed + 1
                  /\ NextItem(upIdx)
                  /\ UNCHANGED <<svPc, svArgs>>
            [] outcome = "error" ->
                  /\ upFailed' = upFailed + 1
                  /\ NextItem(upIdx)
                  /\ UNCHANGED <<upErrors, svPc, svArgs>>
            [] outcome = "free" ->
                  /\ NextItem(upIdx)
                  /\ UNCHANGED <<upErrors, upFailed, svPc, svArgs>>
            [] outcome = "price" ->
                  /\ upPc' = "saving"
                  /\ svPc' = [svPc EXCEPT ![BatchWriter] = "insert"]
                  /\ svArgs' = [svArgs EXCEPT ![BatchWriter] =
                                   [appid |-> BatchRows[upIdx + 1], cc |-> "us",
                                    discount |-> d]]
                  /\ UNCHANGED <<upIdx, upErrors, upFailed>>
    /\ UNCHANGED <<upUpdated, history, summary, tracked, svExisting, svNow, svRet,
                   lastStats, lastCleanup, lastDue>>
    /\ UNCHANGED <<storeVars, hbVars, taskVars, httpVars, rlVars, extVars, sweepVars>>

\* Lines 101-118: save_price_snapshot has returned; updated += 1 when it
\* returned True.
UpdatePricesSaved ==
    /\ upPc = "saving" /\ svPc[BatchWriter] = "done"
    /\ upUpdated' = IF svRet[BatchWriter] THEN upUpdated + 1 ELSE upUpdated
    /\ upFailed' = IF svRet[BatchWriter] THEN upFailed ELSE upFailed + 1
    /\ NextItem(upIdx)
    /\ svPc' = [svPc EXCEPT ![BatchWriter] = "idle"]
    /\ svArgs' = [svArgs EXCEPT ![BatchWriter] = NoArgs]
    /\ svExisting' = [svExisting EXCEPT ![BatchWriter] = ReadRow(NoSummary)]
    /\ svNow' = [svNow EXCEPT ![BatchWriter] = 0]
    /\ svRet' = [svRet EXCEPT ![BatchWriter] = FALSE]
    /\ UNCHANGED <<upErrors, history, summary, tracked, lastStats,
                   lastCleanup, lastDue>>
    /\ UNCHANGED <<storeVars, hbVars, taskVars, httpVars, rlVars, extVars, sweepVars>>

\* update_prices has returned.
UpdatePricesReturn ==
    /\ upPc \in {"done", "failed"}
    /\ upPc' = "idle"
    /\ UNCHANGED <<upIdx, upUpdated, upErrors, upFailed>>
    /\ UNCHANGED <<storeVars, hbVars, taskVars, httpVars, rlVars, extVars, dbVars, sweepVars>>

BatchInit ==
    /\ upPc = "idle"
    /\ upIdx = 0 /\ upUpdated = 0 /\ upErrors = 0 /\ upFailed = 0

(***************************************************************************)
(* redis_manager.py: check_rate_limit(key, limit, window) on one key.  A   *)
(* member of the sorted set is kept as the age of the call that added it   *)
(* and the instance that called: its score is the reading of that          *)
(* instance's event-loop clock (asyncio.get_event_loop().time(), the       *)
(* monotonic clock of the host), which is zSkew[i] seconds ahead of the    *)
(* clock of an instance with skew 0.  The readings of two calls are taken  *)
(* to differ, so that no ZADD replaces a member.                           *)
(***************************************************************************)
\* The arguments limit and window.
RmLimit == 1
RmWindow == 2

\* The members the set is let grow to.
MaxEntries == RmLimit + 2

\* How far the clock of instance "b" is ahead of that of "a": the same host,
\* or a host that was booted a window or more earlier.
RmSkews == {0, RmWindow}

\* The age from which on a member is out of every caller's window.
MaxMemberAge == 2 * RmWindow

\* A reply that refuses the call when the store was not reached.
FailClosed(limit) == [allowed |-> FALSE, remaining |-> limit]

\* Lines 135 and 158: return True, limit
FailOpen(limit) == [allowed |-> TRUE, remaining |-> limit]

\* ZREMRANGEBYSCORE key 0 (now - window) by instance i: the members whose score
\* is above now - window stay.
Trimmed(i) ==
    SelectSeq(zset, LAMBDA m : m.age < RmWindow + zSkew[m.by] - zSkew[i])

\* Lines 150-154: current_count = ZCARD after the trim, before the ZADD.
RateLimitReply(count) ==
    [allowed |-> count < RmLimit, remaining |-> Max(0, RmLimit - count - 1)]

\* check_rate_limit(key, limit, window) by instance i.  The pipeline is one
\* MULTI/EXEC transaction: trim, count, add, expire.
RmCheckRateLimit(i) ==
    /\ Len(zset) < MaxEntries
    /\ \E raises \in BOOLEAN :
          LET reached == IsAvailable(i) /\ ~raises
              kept == Trimmed(i)
              r == IF reached THEN RateLimitReply(Len(kept)) ELSE FailOpen(RmLimit)
          IN  /\ zset' = IF reached THEN Append(kept, [age |-> 0, by |-> i]) ELSE zset
              /\ zTtl' = IF reached THEN RmWindow ELSE zTtl
              /\ zAllowed' = IF reached /\ r.allowed THEN Append(zAllowed, 0)
                             ELSE zAllowed
              /\ lastCheck' = [inst |-> i, reached |-> reached,
                               allowed |-> r.allowed, remaining |-> r.remaining]
    /\ UNCHANGED <<zSkew, waitVars, moreVars>>
    /\ UNCHANGED <<storeVars, hbVars, taskVars, httpVars, rlVars, dbVars, sweepVars,
                   batchVars>>

\* The set a second later: the members are older, and the key is gone when its
\* expiry has come.
MembersAfterSecond ==
    IF zTtl = 1 THEN <<>>
    ELSE [n \in 1..Len(zset) |->
             [zset[n] EXCEPT !.age = Min(@ + 1, MaxMemberAge)]]

\* No call yet, the clock of "b" ahead by skew.
RmInit(skew) ==
    /\ zset = <<>>
    /\ zTtl = 0
    /\ zAllowed = <<>>
    /\ zSkew = [i \in Inst |-> IF i = "b" THEN skew ELSE 0]
    /\ lastCheck = [inst |-> "nil", reached |-> FALSE, allowed |-> FALSE,
                    remaining |-> 0]

(***************************************************************************)
(* rate_limiter.py: wait_if_needed(key, max_wait) on the key "steam_api",  *)
(* as with_steam_rate_limit calls it.                                      *)
(***************************************************************************)
\* The greatest max_wait the call is made with.
MaxWait == 2

\* The key of line 114.
WaitKey == "steam_api"

\* A test that lets the wait go on one second too long.
WaitExceededLate(waited, max_wait) == waited > max_wait

\* Line 79: if waited >= max_wait
WaitExceeded(waited, max_wait) == waited >= max_wait

\* wait_if_needed(key, max_wait) is called: waited = 0.
WaitIfNeeded(max_wait) ==
    /\ wPc = "idle"
    /\ wPc' = "poll"
    /\ wMax' = max_wait
    /\ wWaited' = 0
    /\ wPolls' = 0
    /\ UNCHANGED <<wSleep, zVars, moreVars>>
    /\ UNCHANGED <<storeVars, hbVars, taskVars, httpVars, rlVars, dbVars, sweepVars,
                   batchVars>>

\* Lines 78-82: `while not await self.acquire(key)` and, when it was refused,
\* the test of the time waited.
WaitPoll ==
    /\ wPc = "poll"
    /\ LET r == AcquireOutcome(WaitKey)
       IN  /\ requests' = [requests EXCEPT ![WaitKey] = r.list]
           /\ admitted' = IF r.ret THEN [admitted EXCEPT ![WaitKey] = Append(@, 0)]
                          ELSE admitted
           /\ lastAcq' = [key |-> WaitKey, ret |-> r.ret, seq |-> 1 - lastAcq.seq]
           /\ wPc' = IF r.ret THEN "returned"
                     ELSE IF WaitExceeded(wWaited, wMax) THEN "timeout"
                     ELSE "sleep"
           /\ wSleep' = IF ~r.ret /\ ~WaitExceeded(wWaited, wMax) THEN 1 ELSE wSleep
    /\ wPolls' = wPolls + 1
    /\ UNCHANGED <<wMax, wWaited, zVars, moreVars>>
    /\ UNCHANGED <<storeVars, hbVars, taskVars, httpVars, dbVars, sweepVars, batchVars>>

\* Lines 82-83: the sleep is over, waited += 1.
WaitWake ==
    /\ wPc = "sleep" /\ wSleep = 0
    /\ wPc' = "poll"
    /\ wWaited' = wWaited + 1
    /\ UNCHANGED <<wMax, wSleep, wPolls, zVars, moreVars>>
    /\ UNCHANGED <<storeVars, hbVars, taskVars, httpVars, rlVars, dbVars, sweepVars,
                   batchVars>>

\* The caller has the result (None, or TimeoutError).
WaitReturn ==
    /\ wPc \in {"returned", "timeout"}
    /\ wPc' = "idle"
    /\ wMax' = 0 /\ wWaited' = 0 /\ wPolls' = 0
    /\ UNCHANGED <<wSleep, zVars, moreVars>>
    /\ UNCHANGED <<storeVars, hbVars, taskVars, httpVars, rlVars, dbVars, sweepVars,
                   batchVars>>

WaitInit ==
    /\ wPc = "idle"
    /\ wMax = 0 /\ wWaited = 0 /\ wSleep = 0 /\ wPolls = 0

(***************************************************************************)
(* steamdb_ui.py: toggle_tracking called with a redis_client, by several   *)
(* invocations for the same (appid, discord_id).                           *)
(***************************************************************************)
Toggles == {"t1", "t2"}

\* The subscription all of them toggle.
ToggleSub == "s1"

\* ex=5 of the SET in line 40, in seconds.
ToggleLockTtl == 5

\* The key lock:track:{appid}:{discord_id} does not exist.
NoLock == [by |-> "nobody", ttl |-> 0]

\* acquired = await redis_client.set(lock_key, "1", nx=True, ex=5); a call that
\* finds the key raises RuntimeError before the try statement.
ToggleEnter(t) ==
    /\ tgPc[t] = "idle"
    /\ IF tLock = NoLock
       THEN /\ tLock' = [by |-> t, ttl |-> ToggleLockTtl]
            /\ tgPc' = [tgPc EXCEPT ![t] = "tx"]
       ELSE /\ tLock' = tLock
            /\ tgPc' = [tgPc EXCEPT ![t] = "refused"]
    /\ UNCHANGED <<storeVars, hbVars, taskVars, httpVars, rlVars, dbVars, sweepVars,
                   batchVars, zVars, waitVars, orphanVars, cacheVars, vacant>>

\* The RuntimeError leaves toggle_tracking.
ToggleRefused(t) ==
    /\ tgPc[t] = "refused"
    /\ tgPc' = [tgPc EXCEPT ![t] = "idle"]
    /\ UNCHANGED <<storeVars, hbVars, taskVars, httpVars, rlVars, dbVars, sweepVars,
                   batchVars, zVars, waitVars, orphanVars, tLock, cacheVars, vacant>>

\* The transaction of lines 46-86 commits or raises.
ToggleTx(t) ==
    /\ tgPc[t] = "tx"
    /\ \E raises \in BOOLEAN : tracked' = Toggled(ToggleSub, raises)
    /\ tgPc' = [tgPc EXCEPT ![t] = "finally"]
    /\ UNCHANGED <<history, summary, svPc, svArgs, svExisting, svNow, svRet,
                   lastStats, lastCleanup, lastDue>>
    /\ UNCHANGED <<storeVars, hbVars, taskVars, httpVars, rlVars, sweepVars,
                   batchVars, zVars, waitVars, orphanVars, tLock, cacheVars, vacant>>

\* finally: await redis_client.delete(lock_key)
ToggleFinally(t) ==
    /\ tgPc[t] = "finally"
    /\ \E raises \in BOOLEAN : tLock' = IF raises THEN tLock ELSE NoLock
    /\ tgPc' = [tgPc EXCEPT ![t] = "idle"]
    /\ UNCHANGED <<storeVars, hbVars, taskVars, httpVars, rlVars, dbVars, sweepVars,
                   batchVars, zVars, waitVars, orphanVars, cacheVars, vacant>>

\* The key one second later.
LockAfterSecond(l) ==
    IF l = NoLock \/ l.ttl <= 1 THEN NoLock ELSE [l EXCEPT !.ttl = @ - 1]

ToggleInit ==
    /\ tgPc = [t \in Toggles |-> "idle"]
    /\ tLock = NoLock

(***************************************************************************)
(* steam_price.py: SteamPriceAPI.get_price_info for one (appid, cc), whose *)
(* cache entry ages by HourPasses.                                         *)
(***************************************************************************)
\* What the store API answers: the request raises, a status other than 200,
\* success false, a free game, no price_overview, a price.
PriceAnswers == {"raise", "http_error", "not_found", "free", "no_price", "price"}

\* No call of get_price_info has returned yet.
NoPrice == [cached |-> FALSE, age |-> 0, error |-> FALSE, discount |-> 0]

\* get_price_info(appid, cc)
GetPriceInfo ==
    /\ \E answer \in PriceAnswers, d \in Discounts :
          IF cache.present /\ CacheHit(cache.age)
          THEN /\ lastPrice' = [cached |-> TRUE, age |-> cache.age,
                                error |-> cache.error, discount |-> cache.discount]
               /\ cache' = cache
          ELSE LET error == answer \notin {"free", "price"}
                   discount == IF answer = "price" THEN d ELSE 0
               IN  /\ lastPrice' = [cached |-> FALSE, age |-> 0, error |-> error,
                                     discount |-> discount]
                   /\ cache' = IF error THEN cache
                               ELSE [present |-> TRUE, age |-> 0, error |-> FALSE,
                                     discount |-> discount]
    /\ UNCHANGED <<storeVars, hbVars, taskVars, httpVars, rlVars, dbVars, sweepVars,
                   batchVars, zVars, waitVars, orphanVars, toggleVars, vacant>>

CacheInit ==
    /\ cache = NoEntry
    /\ lastPrice = NoPrice

MoreInit == ToggleInit /\ CacheInit /\ vacant = NoVacancy

(***************************************************************************)
(* Time.                                                                   *)
(***************************************************************************)
Dec(n) == IF n > 0 THEN n - 1 ELSE n

\* One second passes for the store, the sleeps and the windows.
Second ==
    /\ store' = StoreAfterSecond(store)
    /\ acqEpoch' = EpochAfter(store', acqEpoch)
    /\ hbSleep' = [i \in Inst |-> Dec(hbSleep[i])]
    /\ rateLimits' = [d \in Domains |-> Dec(rateLimits[d])]
    /\ hSleep' = [c \in Calls |-> Dec(hSleep[c])]
    /\ ban' = [d \in Domains |-> Dec(ban[d])]
    /\ requests' = [k \in LimKeys |-> Older(requests[k], LimWindow)]
    /\ admitted' = [k \in LimKeys |->
                       SelectSeq(Older(admitted[k], LimWindow + 1),
                                 LAMBDA age : age <= LimWindow)]
    /\ zset' = MembersAfterSecond
    /\ zTtl' = Dec(zTtl)
    /\ zAllowed' = SelectSeq(Older(zAllowed, RmWindow + 1),
                             LAMBDA age : age <= RmWindow)
    /\ wSleep' = Dec(wSleep)
    /\ oSleep' = [i \in Inst |-> Dec(oSleep[i])]
    /\ tLock' = LockAfterSecond(tLock)
    /\ UNCHANGED <<oPc, tgPc, cacheVars>>
    /\ UNCHANGED <<client, lastCall, hbPc, hbCancel, hbReg, stopPc, taskVars,
                   hCfg, permits, hPc, hAttempt, hRetry429, hResult, hNet,
                   hSleeps, hOnly5xx, hOnlyErr, hMethod, lastAcq, dbVars, sweepVars,
                   batchVars, zSkew, lastCheck, wPc, wMax, wWaited, wPolls>>

\* One second passes.
Tick == Second /\ UNCHANGED vacant

\* The instances whose heartbeat task exists and is not being stopped.
Heartbeating == {i \in Inst : hbReg[i] /\ stopPc[i] = "idle"}

\* The event loop has a step of instance i to run now: its heartbeat task is
\* ready (not in a sleep that has time left), or its stop_leader_heartbeat is
\* awaiting a task that is done.
Ready(i) ==
    \/ hbPc[i] \in {"created", "is_leader", "renew", "reacquire", "acquire", "release"}
    \/ hbPc[i] = "sleep" /\ (hbSleep[i] = 0 \/ hbCancel[i])
    \/ stopPc[i] = "awaiting" /\ hbPc[i] = "done"

\* One second passes under timely scheduling: the loop runs every ready task
\* before the clock moves, a step of heartbeat() taking no time against
\* `interval`.
HbTick ==
    /\ \A i \in Inst : ~Ready(i)
    /\ Second
    /\ vacant' = IF store[LeaderKey] = Absent /\ Heartbeating # {}
                 THEN [secs |-> IF vacant.ended THEN 1
                                ELSE Min(vacant.secs + 1, HbInterval + 1),
                       ended |-> FALSE]
                 ELSE NoVacancy

(***************************************************************************)
(* Specifications.                                                         *)
(***************************************************************************)
\* The configuration of the retry example: max_retries=3, base_delay=1s,
\* max_delay=8s.
ExampleConfig == [max_retries |-> 3, base_delay |-> 1, max_delay |-> 8]

Init ==
    /\ StoreInit /\ HbInit /\ TaskInit /\ HttpIdle(ExampleConfig) /\ LimiterInit
    /\ DbInit /\ SweepInit /\ BatchInit
    /\ RmInit(0) /\ WaitInit /\ MoreInit

\* The methods of RedisManager called by any instance in any order.
Next ==
    \/ \E i \in Inst : Connect(i)
    \/ \E i \in Inst : AcquireLeaderLock(i)
    \/ \E i \in Inst : IsLeader(i)
    \/ \E i \in Inst : RenewLeaderLock(i)
    \/ \E i \in Inst : ReleaseLeaderLock(i)
    \/ \E i \in Inst : AcquireLock(i)
    \/ \E i \in Inst : ReleaseLock(i)
    \/ Tick

Spec == Init /\ [][Next]_vars

\* The leader heartbeat, started and stopped at any time, beside direct calls
\* of acquire_leader_lock.
NextHeartbeat ==
    \/ \E i \in Inst : Connect(i)
    \/ \E i \in Inst : AcquireLeaderLock(i)
    \/ \E i \in Inst : StartLeaderHeartbeat(i)
    \/ \E i \in Inst : HbFirstRun(i)
    \/ \E i \in Inst : HbIsLeader(i)
    \/ \E i \in Inst : HbRenew(i)
    \/ \E i \in Inst : HbAcquire(i)
    \/ \E i \in Inst : HbWake(i)
    \/ \E i \in Inst : HbCancelled(i)
    \/ \E i \in Inst : HbRelease(i)
    \/ \E i \in Inst : StopLeaderHeartbeat(i)
    \/ \E i \in Inst : StopFinish(i)
    \/ Tick

SpecHeartbeat == Init /\ [][NextHeartbeat]_vars

\* The periodic jobs ticking on every instance, beside the lease.
NextTasks ==
    \/ \E i \in Inst : Connect(i)
    \/ \E i \in Inst : AcquireLeaderLock(i)
    \/ \E i \in Inst, j \in Jobs : TaskTick(i, j)
    \/ \E i \in Inst, j \in Jobs : JobFinish(i, j)
    \/ Tick

SpecTasks == Init /\ [][NextTasks]_vars

\* Concurrent calls of get() on one manager, built with any of Configs.
InitHttp ==
    /\ StoreInit /\ HbInit /\ TaskInit /\ LimiterInit
    /\ DbInit /\ SweepInit /\ BatchInit
    /\ RmInit(0) /\ WaitInit /\ MoreInit
    /\ \E cfg \in Configs : HttpIdle(cfg)

NextHttp ==
    \/ \E c \in Calls : GetStart(c)
    \/ \E c \in Calls : GetEnter(c)
    \/ \E c \in Calls : GetRequest(c)
    \/ \E c \in Calls : GetWake(c)
    \/ \E c \in Calls : GetReturn(c)
    \/ Tick

SpecHttp == InitHttp /\ [][NextHttp]_vars

\* Concurrent calls of get() and post() on one manager.
NextHttpAll ==
    \/ NextHttp
    \/ \E c \in Calls : PostStart(c)
    \/ \E c \in Calls : PostRequest(c)

SpecHttpAll == InitHttp /\ [][NextHttpAll]_vars

\* One call of get() or post() at a time, 429 answers with or without a
\* Retry-After header.
NextHttpOne ==
    \/ GetStart("c1")
    \/ PostStart("c1")
    \/ GetEnter("c1")
    \/ GetRequestWith("c1", RetryAfterValues \cup {NoHeader})
    \/ PostRequest("c1")
    \/ GetWake("c1")
    \/ GetReturn("c1")
    \/ Tick

SpecHttpOne == InitHttp /\ [][NextHttpOne]_vars

\* The same, where the event loop runs the call whenever it is ready, every
\* request is answered or fails, and time goes on.
SpecHttpOneFair ==
    /\ SpecHttpOne
    /\ WF_vars(GetEnter("c1"))
    /\ WF_vars(GetRequestWith("c1", RetryAfterValues \cup {NoHeader}))
    /\ WF_vars(PostRequest("c1"))
    /\ WF_vars(GetWake("c1"))
    /\ WF_vars(Tick)

\* Calls of acquire on one limiter, at any times.
NextLimiter ==
    \/ \E k \in LimKeys : LimiterAcquire(k)
    \/ Tick

SpecLimiter == Init /\ [][NextLimiter]_vars

\* One call of wait_if_needed at a time, beside other callers of acquire with
\* the same key.
NextWait ==
    \/ \E max_wait \in 0..MaxWait : WaitIfNeeded(max_wait)
    \/ WaitPoll
    \/ WaitWake
    \/ WaitReturn
    \/ LimiterAcquire(WaitKey)
    \/ Tick

SpecWait == Init /\ [][NextWait]_vars

\* The same, where the event loop runs every coroutine that is ready and time
\* goes on.
SpecWaitFair ==
    SpecWait /\ WF_vars(WaitPoll) /\ WF_vars(WaitWake) /\ WF_vars(Tick)

\* Two instances calling check_rate_limit on one key of one store, each with
\* the event-loop clock of its host.
InitShared ==
    /\ StoreInit /\ HbInit /\ TaskInit /\ HttpIdle(ExampleConfig) /\ LimiterInit
    /\ DbInit /\ SweepInit /\ BatchInit
    /\ WaitInit /\ MoreInit
    /\ \E skew \in RmSkews : RmInit(skew)

NextShared ==
    \/ \E i \in Inst : Connect(i)
    \/ \E i \in Inst : RmCheckRateLimit(i)
    \/ Tick

SpecShared == InitShared /\ [][NextShared]_vars

\* The same with both instances on one host: their clocks agree.
SpecSharedOneHost == Init /\ [][NextShared]_vars

\* One caller of save_price_snapshot at a time, beside cleanup_old_history.
NextHistory ==
    \/ \E d \in Discounts : SaveCall("w1", 10, "us", d)
    \/ SaveInsert("w1")
    \/ SaveRead("w1")
    \/ SaveWrite("w1")
    \/ SaveReturn("w1")
    \/ \E days \in 1..MaxRetainDays : CleanupOldHistory(days)
    \/ DayPasses

SpecHistory == Init /\ [][NextHistory]_vars

\* The same, with get_discount_stats called at any time.
NextStats ==
    \/ NextHistory
    \/ \E a \in Apps : GetDiscountStats(a)

SpecStats == Init /\ [][NextStats]_vars

\* get_discount_stats called at any time on tables that earlier calls of
\* save_price_snapshot left, beside cleanup_old_history.
InitLogs ==
    /\ StoreInit /\ HbInit /\ TaskInit /\ HttpIdle(ExampleConfig) /\ LimiterInit
    /\ SweepInit /\ BatchInit
    /\ RmInit(0) /\ WaitInit /\ MoreInit
    /\ \E h \in Logs : DbHolding(h, [s \in Subs |-> NoTrack])

NextLogs ==
    \/ \E a \in Apps : GetDiscountStats(a)
    \/ \E days \in 1..MaxRetainDays : CleanupOldHistory(days)
    \/ DayPasses

SpecLogs == InitLogs /\ [][NextLogs]_vars

\* Concurrent callers of save_price_snapshot (update_prices, the task that
\* /steam_db creates, other instances), beside cleanup_old_history.
NextWriters ==
    \/ \E w \in Writers, d \in Discounts : SaveCall(w, 10, "us", d)
    \/ \E w \in Writers : SaveInsert(w)
    \/ \E w \in Writers : SaveRead(w)
    \/ \E w \in Writers : SaveWrite(w)
    \/ \E w \in Writers : SaveReturn(w)
    \/ \E days \in 1..MaxRetainDays : CleanupOldHistory(days)
    \/ DayPasses

SpecWriters == Init /\ [][NextWriters]_vars

\* The tables after some snapshots were saved.
InitTables ==
    /\ StoreInit /\ HbInit /\ TaskInit /\ HttpIdle(ExampleConfig) /\ LimiterInit
    /\ SweepInit /\ BatchInit
    /\ RmInit(0) /\ WaitInit /\ MoreInit
    /\ \E h \in Histories, t \in TrackedAtStart : DbHolding(h, t)

\* The subscription s1 changed and marked and the notification query made at
\* any times, beside a subscription s2 for an appid without snapshots.
NextNotify ==
    \/ \E thr \in Thresholds : AddTrackedGame("s1", thr)
    \/ RemoveTrackedGame("s1")
    \/ ToggleTracking("s1")
    \/ MarkNotified("s1")
    \/ \E hours \in 1..MaxCooldown : GetGamesNeedingNotification(hours)
    \/ HourPasses

SpecNotify == InitTables /\ [][NextNotify]_vars

\* Runs of check_discounts, beside subscriptions being added and removed.
NextSweep ==
    \/ \E s \in Subs, thr \in Thresholds : AddTrackedGame(s, thr)
    \/ \E s \in Subs : RemoveTrackedGame(s)
    \/ CheckDiscountsStart
    \/ CheckDiscountsItem
    \/ CheckDiscountsEnd
    \/ DayPasses

SpecSweep == InitTables /\ [][NextSweep]_vars

\* Runs of update_prices, beside cleanup_old_history.
NextBatch ==
    \/ UpdatePricesStart
    \/ UpdatePricesFetch
    \/ SaveInsert(BatchWriter)
    \/ SaveRead(BatchWriter)
    \/ SaveWrite(BatchWriter)
    \/ UpdatePricesSaved
    \/ UpdatePricesReturn
    \/ \E days \in 1..MaxRetainDays : CleanupOldHistory(days)
    \/ DayPasses

SpecBatch == Init /\ [][NextBatch]_vars

\* One instance whose start_leader_heartbeat may be called again before a
\* stop_leader_heartbeat.
NextHeartbeatTwice ==
    \/ Connect("a")
    \/ StartLeaderHeartbeat("a")
    \/ StartLeaderHeartbeatAgain("a")
    \/ HbFirstRun("a")
    \/ HbIsLeader("a")
    \/ HbRenew("a")
    \/ HbAcquire("a")
    \/ HbWake("a")
    \/ HbCancelled("a")
    \/ HbRelease("a")
    \/ OrphanStep("a")
    \/ StopLeaderHeartbeat("a")
    \/ StopFinish("a")
    \/ Tick

SpecHeartbeatTwice == Init /\ [][NextHeartbeatTwice]_vars

\* Invocations of toggle_tracking with a redis_client for one subscription.
NextToggle ==
    \/ \E t \in Toggles : ToggleEnter(t)
    \/ \E t \in Toggles : ToggleRefused(t)
    \/ \E t \in Toggles : ToggleTx(t)
    \/ \E t \in Toggles : ToggleFinally(t)
    \/ Tick

SpecToggle == Init /\ [][NextToggle]_vars

\* get_price_info called at any hour.
NextPrice ==
    \/ GetPriceInfo
    \/ HourPasses

SpecPrice == Init /\ [][NextPrice]_vars

\* A day passes while no call of save_price_snapshot is under way, so that
\* NOW() of the INSERT and datetime.utcnow() of _update_summary are of one day.
DayPassesBetweenCalls ==
    /\ \A w \in Writers : svPc[w] = "idle"
    /\ DayPasses

\* One caller of save_price_snapshot, one call at a time, and no
\* cleanup_old_history.
NextSummary ==
    \/ \E a \in Apps, cc \in Regions, d \in Discounts : SaveCall("w1", a, cc, d)
    \/ SaveInsert("w1")
    \/ SaveRead("w1")
    \/ SaveWrite("w1")
    \/ SaveReturn("w1")
    \/ DayPassesBetweenCalls

SpecSummary == Init /\ [][NextSummary]_vars

\* Every instance is connected to the store.
InitConnected ==
    /\ client = [i \in Inst |-> TRUE]
    /\ store = [k \in Keys |-> Absent]
    /\ lastCall = NoCall
    /\ acqEpoch = NoEpoch
    /\ HbInit /\ TaskInit /\ HttpIdle(ExampleConfig) /\ LimiterInit
    /\ DbInit /\ SweepInit /\ BatchInit
    /\ RmInit(0) /\ WaitInit /\ MoreInit

\* One heartbeat per instance, started and stopped at any time, with the store
\* reachable (no store call of the loop raises) and the loop scheduled timely.
NextBeat ==
    \/ \E i \in Inst : StartLeaderHeartbeat(i)
    \/ \E i \in Inst : HbFirstRun(i)
    \/ \E i \in Inst : HbIsLeaderWith(i, FALSE)
    \/ \E i \in Inst : HbRenewWith(i, FALSE)
    \/ \E i \in Inst : HbAcquireWith(i, FALSE)
    \/ \E i \in Inst : HbWake(i)
    \/ \E i \in Inst : HbCancelled(i)
    \/ \E i \in Inst : HbRelease(i)
    \/ \E i \in Inst : StopLeaderHeartbeat(i)
    \/ \E i \in Inst : StopFinish(i)
    \/ HbTick

\* The event loop runs a task that is ready: weak fairness of every step of the
\* heartbeat tasks.  Time goes on however often heartbeats are started and
\* stopped: strong fairness of the clock, which is held up while a task is
\* ready.  Starting and stopping a heartbeat are up to the caller.
SpecBeatFair ==
    /\ InitConnected /\ [][NextBeat]_vars
    /\ SF_vars(HbTick)
    /\ \A i \in Inst :
          /\ WF_vars(HbFirstRun(i))
          /\ WF_vars(HbIsLeaderWith(i, FALSE))
          /\ WF_vars(HbRenewWith(i, FALSE))
          /\ WF_vars(HbAcquireWith(i, FALSE))
          /\ WF_vars(HbWake(i))
          /\ WF_vars(HbCancelled(i))
          /\ WF_vars(HbRelease(i))
          /\ WF_vars(StopFinish(i))

(***************************************************************************)
(* Properties of the leader lease and the distributed lock.                *)
(***************************************************************************)
\* A call of one of the named methods has just been made.
Called(ops) == lastCall'.seq # lastCall.seq /\ lastCall'.op \in ops

\* C1: when the lease does not exist and two instances with different ids both
\* call acquire_leader_lock on the reachable store before the lease expires,
\* exactly one of the calls returns True and the other returns False.
C1_ExactlyOneAcquires ==
    Cardinality(acqEpoch.callers) >= 2 =>
        /\ Cardinality(acqEpoch.winners) = 1
        /\ acqEpoch.winners \subseteq acqEpoch.callers

\* Both instances have called acquire_leader_lock on the reachable store since
\* the lease was last absent, the second one just now, and it was refused.
C1_Witness ==
    /\ acqEpoch.callers = Inst
    /\ lastCall.op = "acquire_leader_lock" /\ lastCall.reached /\ ~lastCall.ret
    /\ acqEpoch.winners = Inst \ {lastCall.inst}

\* C2: renew_leader_lock never returns True for an instance that is not the
\* owner of the lease in the store, and a renewal that returns False leaves the
\* stored owner and its expiry as they were.
C2_RenewOnlyByOwner ==
    [][Called({"renew_leader_lock"}) =>
          /\ lastCall'.ret => RedisGet(store, LeaderKey) = lastCall'.inst
          /\ ~lastCall'.ret => store' = store]_vars

\* The part of C2 that the code keeps: a renewal that reached the store returns
\* True only for the owner, and changes nothing when it returns False.
RenewOnlyByOwnerWhenReached ==
    [][(Called({"renew_leader_lock"}) /\ lastCall'.reached) =>
          /\ lastCall'.ret => RedisGet(store, LeaderKey) = lastCall'.inst
          /\ ~lastCall'.ret => store' = store]_vars

\* C3: in every reachable state, among the instances that share the reachable
\* store, is_leader is true for at most one, and the lease names one owner.
C3_AtMostOneLeader ==
    /\ Cardinality({i \in Inst : client[i] /\ IsLeaderResult(i, FALSE)}) <= 1
    /\ store[LeaderKey] # Absent => store[LeaderKey].owner \in Inst

\* Both instances are connected, one holds the lease, and a renewal has just
\* been answered.
C3_Witness ==
    /\ \A i \in Inst : client[i]
    /\ \E i \in Inst : IsLeaderResult(i, FALSE)
    /\ lastCall.op = "renew_leader_lock" /\ lastCall.reached

\* C4: when the store is not reached (no client, or the call raises),
\* acquire_leader_lock, is_leader and renew_leader_lock return False.
C4_UnreachableMeansNotLeader ==
    (/\ lastCall.op \in {"acquire_leader_lock", "is_leader", "renew_leader_lock"}
     /\ ~lastCall.reached)
        => ~lastCall.ret

\* C6: release_lock and release_leader_lock delete the entry only when its value
\* is the caller's instance id; any other release leaves every entry, with its
\* owner and its remaining TTL, as it was.
C6_ReleaseOnlyByOwner ==
    [][Called({"release_lock", "release_leader_lock"}) =>
          LET k == lastCall'.key
              i == lastCall'.inst
          IN  /\ \A k2 \in Keys \ {k} : store'[k2] = store[k2]
              /\ store[k].owner # i => store'[k] = store[k]
              /\ store'[k] # store[k] => (store[k].owner = i /\ store'[k] = Absent)
              /\ (lastCall'.reached /\ store[k].owner = i) => store'[k] = Absent]_vars

\* An instance has just called release_lock on the reachable store while the
\* other instance holds the lock and the lease.
C6_Witness ==
    /\ lastCall.op = "release_lock" /\ lastCall.reached
    /\ store[LockKey] # Absent /\ store[LockKey].owner # lastCall.inst
    /\ store[LeaderKey] # Absent /\ store[LeaderKey].owner # lastCall.inst

(***************************************************************************)
(* Properties of the heartbeat and of the periodic jobs.                   *)
(***************************************************************************)
\* C5: the body of a periodic job runs only on an instance that was leader at
\* the tick, so at most one instance runs the body of a job at a time.
C5_BodyOnlyOnLeader ==
    /\ \A i \in Inst, j \in Jobs : jobPc[i][j] = "running" => tickLeader[i][j]
    /\ \A j \in Jobs : Cardinality({i \in Inst : jobPc[i][j] = "running"}) <= 1

\* C7: when stop_leader_heartbeat completes, wherever the cancellation reached
\* the heartbeat task, the instance no longer owns the lease.
C7_StopReleasesLease ==
    [][\A i \in Inst :
          (stopPc[i] = "awaiting" /\ stopPc'[i] = "idle")
              => RedisGet(store', LeaderKey) # i]_vars

(***************************************************************************)
(* Properties of HTTPSessionManager.get.                                   *)
(***************************************************************************)
\* min(base_delay * 2^k, max_delay), the delay before retry k.
ExpectedDelay(k) ==
    LET d == hCfg.base_delay * (2 ^ k)
    IN  IF d < hCfg.max_delay THEN d ELSE hCfg.max_delay

RECURSIVE Sum(_)
Sum(seq) == IF seq = <<>> THEN 0 ELSE Head(seq) + Sum(Tail(seq))

\* C8: a call of get() that is answered by 5xx statuses only makes exactly
\* max_retries + 1 requests, sleeps min(base_delay * 2^k, max_delay) before
\* retry k and never after the last request; with max_retries=3, base_delay=1,
\* max_delay=8 that is 4 requests and 1+2+4 = 7 seconds of waiting.
C8_RetriesAndBackoffOn5xx ==
    \A c \in Calls :
        (hOnly5xx[c] /\ hNet[c] > 0) =>
            /\ hNet[c] <= hCfg.max_retries + 1
            /\ Len(hSleeps[c]) <= hCfg.max_retries
            /\ \A k \in 1..Len(hSleeps[c]) : hSleeps[c][k] = ExpectedDelay(k - 1)
            /\ hPc[c] = "done" =>
                  /\ hNet[c] = hCfg.max_retries + 1
                  /\ Len(hSleeps[c]) = hCfg.max_retries
                  /\ hResult[c] = "5xx"
                  /\ hCfg = ExampleConfig =>
                        (hNet[c] = 4 /\ hSleeps[c] = <<1, 2, 4>> /\ Sum(hSleeps[c]) = 7)

\* Under the example configuration a call has ended after four 5xx answers.
C8_Witness ==
    \E c \in Calls :
        /\ hCfg = ExampleConfig
        /\ hPc[c] = "done" /\ hOnly5xx[c] /\ hNet[c] = 4
        /\ hResult[c] = "5xx"

\* C9: after a 429 with Retry-After: R from an origin, no request goes out to
\* that origin, from any call of get(), until R seconds have passed.
C9_NoRequestDuringRetryAfter ==
    [][\A c \in Calls : hNet'[c] = hNet[c] + 1 => ban[DomainOf(c)] = 0]_vars

(***************************************************************************)
(* Properties of RateLimiter.                                              *)
(***************************************************************************)
\* How many of the ages are below w.
Younger(ages, w) == Len(SelectSeq(ages, LAMBDA age : age < w))

\* C10: with max_requests = N and window W, for every key at most N calls of
\* acquire return True within any W seconds; a call made while N calls were
\* admitted within the last W seconds returns False; a call made when fewer than
\* N admitted calls are not yet older than W returns True.
C10_SlidingWindow ==
    /\ [](\A k \in LimKeys : Younger(admitted[k], LimWindow) <= LimMaxRequests)
    /\ [][lastAcq'.seq # lastAcq.seq =>
             LET k == lastAcq'.key
             IN  /\ Younger(admitted[k], LimWindow) >= LimMaxRequests
                       => ~lastAcq'.ret
                 /\ Len(admitted[k]) < LimMaxRequests => lastAcq'.ret]_vars

\* A call of acquire has just been refused, N calls having been admitted within
\* the window.
C10_Witness ==
    /\ lastAcq.key \in LimKeys /\ ~lastAcq.ret
    /\ Younger(admitted[lastAcq.key], LimWindow) = LimMaxRequests

(***************************************************************************)
(* Properties of the history store.                                        *)
(***************************************************************************)
\* The snapshot rows of appid a whose call of save_price_snapshot returned True.
SavedRowsOf(a) == SelectSeq(history, LAMBDA r : r.appid = a /\ r.by = "saved")

\* The least positive discount among rows, NULL when none is positive.
MinPositive(rows) ==
    IF PositiveDiscounts(rows) = {} THEN Null ELSE MinOf(PositiveDiscounts(rows))

\* C11: when the discounts d1..dn are saved for one item with
\* save_price_snapshot, one call after the other, the summary's min_discount
\* is the least of the di that are > 0, and NULL when none is, in whatever
\* order the di came.
C11_MinDiscountIsLeastPositive ==
    \A a \in Apps :
        /\ summary[a].present =>
              summary[a].min_discount = MinPositive(SavedRowsOf(a))
        /\ SavedRowsOf(a) # <<>> => summary[a].present

\* Two positive discounts were saved for an item, the greater one last, and the
\* summary holds the lesser one.
C11_Witness ==
    \E a \in Apps :
        LET rows == SavedRowsOf(a)
        IN  /\ Len(rows) = 2
            /\ rows[1].discount > 0 /\ rows[2].discount > rows[1].discount
            /\ summary[a].min_discount = rows[1].discount

RepeatsPreceding(w) ==
    \E n \in 2..Len(history) :
        /\ history[n].by = w
        /\ history[n - 1].by = "saved"
        /\ history[n - 1].appid = history[n].appid
        /\ history[n - 1].cc = history[n].cc
        /\ history[n - 1].discount = history[n].discount

\* C13: a call of save_price_snapshot with the same item, region and discount
\* as the call before it leaves the summary's min_discount and last_discount
\* as that call left them.
C13_RepeatedSaveKeepsSummary ==
    [][\A w \in Writers :
          (svPc[w] \in {"read", "write"} /\ RepeatsPreceding(w)) =>
              LET a == svArgs[w].appid
              IN  /\ summary'[a].min_discount = summary[a].min_discount
                  /\ summary'[a].last_discount = summary[a].last_discount]_vars

\* A call with a positive discount has returned True right after a call with
\* the same arguments that returned True.
C13_Witness ==
    /\ svPc["w1"] = "done" /\ svRet["w1"]
    /\ Len(history) = 2
    /\ history[1].by = "saved" /\ history[2].by = "saved"
    /\ history[1].appid = history[2].appid
    /\ history[1].cc = history[2].cc
    /\ history[1].discount = history[2].discount
    /\ history[1].discount > 0
    /\ summary[history[1].appid].last_discount = history[1].discount

\* C14: save_price_snapshot is atomic: when it returns False neither the
\* snapshot table nor the summary has changed (no snapshot row is left by a
\* call that returned False), and when it returns True there is its snapshot
\* row and a summary row.
C14_SaveIsAtomic ==
    /\ \A n \in 1..Len(history) : history[n].by # "failed"
    /\ \A w \in Writers :
          (svPc[w] = "done" /\ svRet[w]) => summary[svArgs[w].appid].present

\* C15: two concurrent calls of save_price_snapshot for one item are
\* serialized on the summary row: however their reads and writes of the
\* summary interleave, no call comes to insert a first summary row that the
\* other has inserted meanwhile (and so to fail), and min_discount is the least
\* positive discount of all calls that returned.
C15_ConcurrentSavesSerialized ==
    /\ \A w \in Writers :
          ~(/\ svPc[w] = "write"
            /\ ~svExisting[w].present
            /\ summary[svArgs[w].appid].present)
    /\ \A a \in Apps :
          summary[a].present =>
              summary[a].min_discount = MinPositive(SavedRowsOf(a))

\* No call of save_price_snapshot is under way.
NoSaveUnderWay == \A w \in Writers : svPc[w] \in {"idle", "done"}

\* C16: get_discount_stats gives for an item total_snapshots = the number of
\* successful saves not removed by cleanup, last_discount = the latest saved
\* positive discount and min_discount = the least saved positive discount; so
\* after a first save with d > 0: min d, last d, total 1, and after a further
\* save with d2 > d: min d, last d2, total 2.
C16_StatsCountSuccessfulSaves ==
    [][(lastStats' # lastStats /\ lastStats'.ok /\ NoSaveUnderWay) =>
          LET rows == SavedRowsOf(lastStats'.appid)
              st == lastStats'.stats
          IN  /\ st.total_snapshots = Len(rows)
              /\ st.last_discount = LastPositive(rows)
              /\ st.min_discount = MinPositive(rows)]_vars

\* The rows of h that cleanup_old_history(days) must keep: those with a
\* discount and those not older than days.
KeptByCleanup(h, days) ==
    SelectSeq(h, LAMBDA r : r.discount > 0 \/ r.age <= days)

\* C19: cleanup_old_history(days) deletes exactly the snapshot rows older than
\* days that have discount_percent = 0 (none when it fails), no other step
\* deletes a snapshot row, and the summary table is left as it was.
C19_CleanupDeletesOldZeroRows ==
    [][(lastCleanup' # lastCleanup \/ Len(history') < Len(history)) =>
          /\ history' = IF lastCleanup'.ret
                        THEN KeptByCleanup(history, lastCleanup'.days)
                        ELSE history
          /\ summary' = summary]_vars

\* A cleanup has deleted every snapshot row of an item, none of them showing
\* a discount, and the item's summary row is there.
C19_Witness ==
    /\ lastCleanup.ret
    /\ history = <<>>
    /\ summary[10].present /\ summary[10].min_discount = Null

(***************************************************************************)
(* Properties of the notification query and of the jobs' bodies.           *)
(***************************************************************************)
\* Subscription s is active, a 'us' snapshot of its item reaches its threshold
\* and it was not notified within the last `hours` hours.
IsDue(s, hours) ==
    /\ tracked[s].present /\ tracked[s].active
    /\ \E n \in 1..Len(history) :
          /\ history[n].appid = SubApp(s) /\ history[n].cc = "us"
          /\ history[n].discount >= tracked[s].threshold
    /\ tracked[s].notified # Null => tracked[s].notified > hours

\* The discount of the latest 'us' snapshot of the item of s that reaches the
\* threshold of s.
LatestReaching(s) ==
    LET idx == {n \in 1..Len(history) :
                   /\ history[n].appid = SubApp(s) /\ history[n].cc = "us"
                   /\ history[n].discount >= tracked[s].threshold}
    IN  history[CHOOSE n \in idx : \A m \in idx : m <= n].discount

C18_SweepNotifiesAndMarksDue ==
    [][(swPc = "loop" /\ swPc' = "idle") =>
          \A s \in Subs :
              IF s \in swDue
              THEN swSent[s] = 1 /\ tracked'[s].notified = 0
              ELSE swSent[s] = 0]_vars

\* C20: in a run of update_prices every failure on an item (an exception, a
\* result with an error, a save that failed) is counted in errors, and the run
\* comes to the end of its rows whatever failed.
C20_BatchCountsEveryFailure ==
    upPc = "done" => (upIdx = Len(BatchRows) /\ upErrors = upFailed)

\* The members of the sorted set that are less than w seconds old.
YoungMembers(w) == Len(SelectSeq(zset, LAMBDA m : m.age < w))

\* C21: when the store is unavailable (no client) or the store call raises,
\* check_rate_limit returns allowed = True, with `limit` as what remains,
\* however many calls were made before.
C21_CheckRateLimitFailsOpen ==
    [][\A i \in Inst :
          (RmCheckRateLimit(i) /\ ~lastCheck'.reached) =>
              /\ lastCheck'.allowed
              /\ lastCheck'.remaining = RmLimit
              /\ zset' = zset]_vars

\* A call that did not reach the store was allowed while the window of the key
\* already held `limit` calls.
C21_Witness ==
    /\ lastCheck.inst # "nil" /\ ~lastCheck.reached /\ lastCheck.allowed
    /\ YoungMembers(RmWindow) >= RmLimit
    /\ Younger(zAllowed, RmWindow) >= RmLimit

\* C27: with a reachable store, over all instances at most `limit` calls of
\* check_rate_limit are allowed within any `window` seconds, a call is allowed
\* whenever fewer than `limit` calls were allowed in the window before it, and
\* `remaining` is limit minus the members in the window with this call's,
\* not below 0.
C27_SharedSlidingWindow ==
    /\ [](Younger(zAllowed, RmWindow) <= RmLimit)
    /\ [][\A i \in Inst :
             (RmCheckRateLimit(i) /\ lastCheck'.reached) =>
                 /\ Younger(zAllowed, RmWindow) < RmLimit => lastCheck'.allowed
                 /\ lastCheck'.remaining =
                       Max(0, RmLimit - (YoungMembers(RmWindow) + 1))]_vars

(***************************************************************************)
(* Further properties of HTTPSessionManager.                               *)
(***************************************************************************)
\* The calls that hold a permit of the semaphore: those with a request on the
\* network and those sleeping before their next one.
InFlight == {c \in Calls : hPc[c] \in {"request", "sleeping"}}

\* C22: the requests of one HTTPSessionManager that are on the network, of
\* get() and post() together, are never more than concurrency_limit, however
\* many callers there are.
C22_InFlightWithinConcurrencyLimit ==
    /\ Cardinality(InFlight) <= ConcurrencyLimit
    /\ permits = ConcurrencyLimit - Cardinality(InFlight)

\* A post() has a request on the network and holds the last permit while a get()
\* waits for the semaphore.
C22_Witness ==
    \E c, o \in Calls :
        /\ hPc[c] = "request" /\ hMethod[c] = "post"
        /\ hPc[o] = "waiting" /\ hMethod[o] = "get"
        /\ permits = 0

\* C23: on a 429 answer without a Retry-After header, the sleep before the
\* retry and the cooldown set for the origin are the computed backoff
\* min(base_delay * 2^attempt, max_delay) of the current attempt.
C23_BackoffWhenNoRetryAfter ==
    [][\A c \in Calls :
          (GetAnswered(c, 429, NoHeader) /\ hRetry429[c] /\ MayRetry(hAttempt[c])) =>
              /\ hSleep'[c] = ExpectedDelay(hAttempt[c])
              /\ rateLimits'[DomainOf(c)] = ExpectedDelay(hAttempt[c])]_vars

\* The first request of call c is answered with `status`.
FirstAnswer(c, status) ==
    /\ hNet[c] = 0
    /\ \/ \E header \in RetryAfterValues \cup {NoHeader} : GetAnswered(c, status, header)
       \/ PostAnswered(c, status)

Waiting == wPc \in {"poll", "sleep"}

\* C26: wait_if_needed(key, max_wait) always ends.  It calls acquire once a
\* second; it returns at the first call of acquire that succeeds, which has
\* taken exactly one slot of the window, and raises TimeoutError once it has
\* waited max_wait seconds in vain, after at most max_wait + 1 calls of acquire.
C26_WaitIfNeededEnds ==
    /\ [](/\ wPolls <= wMax + 1
          /\ wWaited <= wMax
          /\ Waiting => wPolls = (IF wPc = "poll" THEN wWaited ELSE wWaited + 1)
          /\ wPc = "timeout" => (wWaited = wMax /\ wPolls = wMax + 1)
          /\ wPc = "returned" => wPolls = wWaited + 1)
    /\ [][WaitPoll =>
             /\ wPc' = "returned" <=> lastAcq'.ret
             /\ IF wPc' = "returned"
                THEN /\ admitted'[WaitKey] = Append(admitted[WaitKey], 0)
                     /\ Len(requests'[WaitKey]) = Len(Pruned(requests[WaitKey])) + 1
                ELSE /\ admitted' = admitted
                     /\ requests'[WaitKey] = Pruned(requests[WaitKey])
             /\ wPc' = "sleep" => wSleep' = 1]_vars
    /\ [][(wPc = "sleep" /\ wPc' # "sleep") => (wSleep = 0 /\ wPc' = "poll")]_vars
    /\ (Waiting ~> wPc \in {"returned", "timeout"})

\* The call has returned at its third call of acquire, two seconds after the
\* first, the window having been full until then.
C26_Witness ==
    /\ wPc = "returned" /\ wWaited = 2 /\ wPolls = 3
    /\ lastAcq.key = WaitKey /\ lastAcq.ret
    /\ Len(requests[WaitKey]) = LimMaxRequests

(***************************************************************************)
(* Further properties of the history store and of the jobs' bodies.        *)
(***************************************************************************)
\* C28: get_discount_stats(appid) returns the values of the summary row when
\* there is one, and otherwise the values aggregated from the snapshot rows
\* (the least positive discount, the latest positive discount, the number of
\* rows, the first and the last fetch time); its result is empty only when a
\* query raised.
C28_StatsFromSummaryElseFromLog ==
    [][\A a \in Apps :
          (GetDiscountStats(a) /\ lastStats'.ok) =>
              LET st == lastStats'.stats
                  rows == RowsOf(history, a)
                  ages == {rows[n].age : n \in 1..Len(rows)}
              IN  /\ st.total_snapshots = Len(rows)
                  /\ IF summary[a].present
                     THEN /\ st.min_discount = summary[a].min_discount
                          /\ st.last_discount = summary[a].last_discount
                          /\ st.first_seen = summary[a].first_seen
                          /\ st.last_seen = summary[a].last_seen
                     ELSE /\ st.min_discount = MinPositive(rows)
                          /\ st.last_discount = LastPositive(rows)
                          /\ st.first_seen = (IF ages = {} THEN Null ELSE MaxOf(ages))
                          /\ st.last_seen = (IF ages = {} THEN Null ELSE MinOf(ages))]_vars

\* get_discount_stats has answered with the values of the summary row, the
\* snapshot rows holding a lower positive discount that the summary row does
\* not.
C28_Witness ==
    /\ lastStats.ok /\ lastStats.appid = 10
    /\ summary[10].present
    /\ lastStats.stats.min_discount = summary[10].min_discount
    /\ MinPositive(RowsOf(history, 10)) # summary[10].min_discount

\* C29: for each item of its batch update_prices first waits on the rate
\* limiter, then fetches the price, then calls save_price_snapshot; no fetch
\* goes out for an item that the rate limiter has not admitted.
C29_BatchWaitsThenFetchesThenSaves ==
    [][/\ UpdatePricesFetch => (lastAcq.key = WaitKey /\ lastAcq.ret)
       /\ (svPc[BatchWriter] = "idle" /\ svPc'[BatchWriter] = "insert")
             => UpdatePricesFetch]_vars

\* C30: no unsubscribing or subscribing again (remove_tracked_game,
\* toggle_tracking, add_tracked_game) deletes the row of the subscription or
\* changes its last_notified, so that a subscriber notified within the
\* cooldown stays left out of get_games_needing_notification.
C30_UnsubscribeKeepsLastNotified ==
    [][\A s \in Subs :
          (/\ tracked[s].present
           /\ \/ RemoveTrackedGame(s)
              \/ ToggleTracking(s)
              \/ \E thr \in Thresholds : AddTrackedGame(s, thr)) =>
              /\ tracked'[s].present
              /\ tracked'[s].notified = tracked[s].notified]_vars

\* The call is between its entry and its result.
Running(c) == hPc[c] \in {"waiting", "request", "sleeping"}

C35_OnePermitPerCall ==
    /\ [](/\ permits = ConcurrencyLimit - Cardinality(InFlight)
          /\ (\A c \in Calls : ~Running(c)) => permits = ConcurrencyLimit)
    /\ [][\A c \in Calls :
             /\ (hPc[c] = "waiting" /\ hPc'[c] # "waiting") =>
                   (hPc'[c] = "request" /\ permits' = permits - 1)
             /\ (/\ c \in InFlight /\ hPc'[c] \in {"request", "sleeping"}
                 /\ \A o \in Calls \ {c} : hPc'[o] = hPc[o]) =>
                   permits' = permits
             /\ (c \in InFlight /\ hPc'[c] = "done") => permits' = permits + 1]_vars

\* A post() that slept before its second request has raised, and every permit
\* is free again.
C35_Witness ==
    \E c \in Calls :
        /\ hMethod[c] = "post" /\ hPc[c] = "done" /\ hResult[c] = "raise"
        /\ Len(hSleeps[c]) >= 1
        /\ \A o \in Calls : ~Running(o)
        /\ permits = ConcurrencyLimit

\* C36: a call of the shared check_rate_limit that is denied takes no quota: it
\* leaves the members of the key as they were apart from the trim, so that a
\* caller polling over the limit is allowed again as soon as the calls allowed
\* before have left the window.
C36_DeniedCallTakesNoQuota ==
    [][\A i \in Inst :
          (RmCheckRateLimit(i) /\ lastCheck'.reached) =>
              /\ ~lastCheck'.allowed => zset' = Trimmed(i)
              /\ Younger(zAllowed, RmWindow) = 0 => lastCheck'.allowed]_vars

\* C31: over any sequence of runs of check_discounts on one instance, a
\* subscriber gets at most one notification for an item within the cooldown of
\* 24 hours, counting the notifications that were delivered.
C31_OneNotificationPerCooldown ==
    [][\A s \in Subs :
          (CheckDiscountsItem /\ swDelivered'[s] = 0 /\ swSent'[s] = swSent[s] + 1) =>
              (swDelivered[s] = Null \/ swDelivered[s] >= NotifyWindowDays)]_vars

\* The snapshot row that the running call of save_price_snapshot of writer w
\* inserted is in steam_price_history.
WroteSnapshot(w) == \E n \in 1..Len(history) : history[n].by = w

\* C33: in a run of update_prices every item whose price was fetched, and is
\* not free, gets one new snapshot and is counted as updated: the save of an
\* item is counted exactly when it wrote a snapshot, so that at the end
\* `updated` is the number of snapshots the run wrote and updated + errors is
\* at most the number of items.
C33_UpdatedCountsSnapshotsWritten ==
    /\ [](upPc = "done" => upUpdated + upErrors <= Len(BatchRows))
    /\ [][/\ (upPc = "saving" /\ svPc[BatchWriter] # "done"
                              /\ svPc'[BatchWriter] = "done") =>
                (svRet'[BatchWriter] <=> WroteSnapshot(BatchWriter))
          /\ UpdatePricesSaved =>
                upUpdated' = upUpdated + (IF svRet[BatchWriter] THEN 1 ELSE 0)]_vars

\* C37: when stop_leader_heartbeat(lock_name) returns, no heartbeat task of
\* the instance for that name is running any more, whatever calls of
\* start_leader_heartbeat and stop_leader_heartbeat came before, two starts
\* without a stop between them included.
C37_NoHeartbeatAfterStop ==
    [][\A i \in Inst :
          (stopPc[i] = "awaiting" /\ stopPc'[i] = "idle") =>
              (hbPc'[i] = "none" /\ oPc'[i] \in {"none", "done"})]_vars

\* The invocations of toggle_tracking that are inside the transaction.
InTransaction == {t \in Toggles : tgPc[t] = "tx"}

\* C38: the key of toggle_tracking gives mutual exclusion per (appid,
\* discord_id): at most one invocation is inside the transaction at a time, an
\* invocation that did not get the key does not delete it, and the delete of
\* an invocation never removes a key that another invocation set, its own
\* having expired after 5 seconds included.
C38_ToggleLockExcludes ==
    /\ [](Cardinality(InTransaction) <= 1)
    /\ [][\A t \in Toggles :
             /\ ToggleRefused(t) => tLock' = tLock
             /\ (ToggleFinally(t) /\ tLock' # tLock) => tLock.by = t]_vars

\* C40: get_price_info never returns from the cache a result older than the
\* cache TTL of 3600 seconds, whatever the age of the entry, entries older than
\* one day included, and a result that carries an error is never in the cache.
C40_CachedResultWithinTtl ==
    /\ [](cache.present => ~cache.error)
    /\ [][(GetPriceInfo /\ lastPrice'.cached) => lastPrice'.age < CacheTtl]_vars

\* Every call of save_price_snapshot made so far has returned True.
AllSavesSucceeded ==
    /\ \A w \in Writers : svPc[w] = "idle"
    /\ \A n \in 1..Len(history) : history[n].by = "saved"

\* A date of the snapshot rows as the summary counts it.
SeenAge(age) == IF age = Null THEN Null ELSE Min(age, MaxSeenAge)

\* The statistics of _calculate_stats_from_history with its dates counted as
\* those of the summary are.
StatsFromHistorySeen(a) ==
    [StatsFromHistory(a) EXCEPT !.first_seen = SeenAge(@), !.last_seen = SeenAge(@),
                                !.min_discount_date = SeenAge(@)]

\* C39: after successful calls of save_price_snapshot by a single writer, with
\* no cleanup between them, the summary row and _calculate_stats_from_history
\* agree on min_discount, last_discount, first_seen and last_seen, so that
\* get_discount_stats answers the same whether it reads the summary row or
\* computes from the snapshot rows.
C39_SummaryAgreesWithHistory ==
    \A a \in Apps :
        (AllSavesSucceeded /\ summary[a].present) =>
            DiscountStats(a) = StatsFromHistorySeen(a)

\* Instance i holds the lease.
Leads(i) == store[LeaderKey] # Absent /\ store[LeaderKey].owner = i

====
